---- MODULE Spec2Model ----
(***************************************************************************)
(* Verification model of TheCROWler's crawl orchestration core:            *)
(*   - the Sources catalog and the stored procedure update_sources          *)
(*     (pkg/database/postgresql-setup-v1.2.pgsql),                         *)
(*   - the dispatcher loop checkSources (cmd main),                        *)
(*   - CrawlWebsite / updateSourceState / indexPage (pkg/crawler).         *)
(* Time is counted in minutes.                                             *)
(***************************************************************************)
EXTENDS Integers, Sequences, FiniteSets, Bags, TLC

\* ------------------------------------------------------------------ bounds
NumSources == 3
NumDispatchers == 2
MaxLimit == 2
MaxTicks == 2
NumLifeSources == 1
NumSessions == 2
MaxDepth == 2
MaxConnectTries == 6
NumWorkers == 2
NumPages == 2
\* calls of indexPage in a run
MaxIndexCalls == 2
\* rules of a ruleset or rule group
MaxRules == 2
\* largest retry_count of a rule
MaxRetryCount == 2
\* contexts (context-ids) that run rules
NumContexts == 2
\* characters of a page URL, characters of a URL pattern, patterns of a list
MaxURLLen == 3
MaxPatternLen == 2
MaxPatterns == 2
\* selectors of one rule element
MaxSelectors == 2
\* wait conditions of an action rule
MaxWaitConditions == 2
\* scraping rules of a rule group, ruleset or plan entry; entries of a plan
MaxFragments == 2
MaxPlanItems == 2
\* links a level of the expansion loop works on; levels of a crawl without
\* depth limit
MaxLinks == 2
MaxLevels == 2
\* sessions checkSources starts and driver calls of a session
MaxCrawls == 3
MaxDriverCalls == 3
\* minutes the dispatcher is followed
MaxClock == 1443

Sources == 1..NumSources
LifeSources == 1..NumLifeSources
Dispatchers == 1..NumDispatchers
Sessions == 1..NumSessions
Workers == 1..NumWorkers
Pages == 1..NumPages

\* ------------------------------------------------- constants of the program
\* INTERVAL '15 minutes', '3 days', '1 week' of update_sources, in minutes
ErrorRetryAge == 15
StaleAge == 4320
CompletedAge == 10080

\* SQL NULL of a timestamp column and of a text column; Go's nil / no value
NULL_TS == 0 - 1
NULL_TXT == "NULL"
None == NULL_TS

\* amount by which the wall clock advances in one step of the life cycle:
\* just past the 3 days of the eligibility predicate
StaleTick == StaleAge + 1

\* error messages a crawl can report
CrawlErrors == {"e1"}
NoError == "nil"

\* what the database does with the UPDATE of updateSourceState: it runs, or
\* CheckConnection fails, or db.Exec fails
DbOutcomes == {"ok", "noConnection", "execError"}

VARIABLES
    src,        \* Sources table, committed rows: source_id -> row
    lockedBy,   \* row-level lock (FOR UPDATE) holder of each row, or None
    now,        \* wall clock
    nticks,     \* number of clock advances so far
    pc,         \* dispatcher position: idle, scan, crawl, dead
    limit,      \* limit_val of the dispatcher's current update_sources call
    snap,       \* rows whose snapshot version passes the WHERE clause
    visited,    \* rows the scan has already fetched
    cur,        \* row the scan is currently trying to lock, or None
    sel,        \* SelectedSources: rows locked and selected so far
    held,       \* sources returned to the dispatcher and not yet released
    orphans,    \* sources left 'processing' by a dispatcher that died
    reclaimed,  \* history: orphans that a later call has returned (kept
                \* until the source is released)
    \* ---- checkSources
    dpc,            \* dispatcher loop position: query, sleep, crawl
    sourcesToCrawl, \* rows of the last query not yet handed to CrawlWebsite
    crawling,       \* source the dispatcher's CrawlWebsite call is on, or None
    \* ---- CrawlWebsite
    spc,        \* position of each Crawl Session in CrawlWebsite
    tries,      \* failed selenium.NewRemote attempts of the running ConnectSelenium
    chan,       \* the channel SeleniumInstances: instances sent and not received
    sent,       \* history: how often the session sent its instance
    reports,    \* history: outcomes the session passed to updateSourceState
    depth,      \* currentDepth of the expansion loop
    linksFound, \* newLinksFound > 0
    \* ---- indexPage
    ipc,            \* position of each worker in indexPage
    indexPageMutex, \* holder of the mutex, or None
    page,           \* page URL the worker is indexing
    searchIndex,    \* SearchIndex table, committed rows
    pageInfo,       \* pageInfo argument of the worker's call
    tx,             \* the worker's open transaction: its view of the
                    \* tables it writes
    indexID,        \* index_id returned by insertOrUpdateSearchIndex
    kwPos,          \* position of the keyword loop of insertKeywords
    attempt,        \* loop variable i of insertKeywordWithRetries
    keywordID,      \* keyword_id returned by insertKeywordWithRetries
    kwErr,          \* history: outcomes of the attempts of the running
                    \* insertKeywordWithRetries call
    before,         \* history: the committed tables when the call entered
    calls,          \* number of indexPage calls so far
    sourceSearchIndex, \* SourceSearchIndex table, committed rows
    metaTags,       \* MetaTags table, committed rows (a bag)
    keywords,       \* Keywords table, committed rows
    keywordIndex,   \* KeywordIndex table, committed rows (a bag)
    indexSeq,       \* last value of the sequence of SearchIndex.index_id
    keywordSeq,     \* last value of the sequence of Keywords.keyword_id
    \* ---- the rule engine
    fn,         \* the function of the rule engine that is running, or "idle"
    rpc,        \* its position: next, exec, retry, returned
    rulesLeft,  \* rules of the list the loop has not reached yet
    rule,       \* the rule being executed
    retryI,     \* loop variable i of the retry loop
    outs,       \* history: results of the executions of the rule so far
    cid,        \* ctx.GetContextID() of the run
    retErr,     \* error returned by the function
    kvStore,    \* cmn.KVStore: the entries it holds
    \* ---- functions of the rule engine and of the workers
    call,       \* the function being evaluated with its arguments, or <<>>
    result,     \* <<its result>>, or <<>>
    \* ---- the expansion loop of CrawlWebsite and its workers
    configMaxDepth, \* config.Crawler.MaxDepth
    cw,             \* locals of CrawlWebsite: position, maxDepth, currentDepth,
                    \* allLinks, newLinksFound, the jobs channel, the
                    \* number of workers; history: the URLs received from
                    \* the channel in this level, the outcomes passed to
                    \* updateSourceState
    processCtx,     \* processContext: wd (the URL of the page the browser
                    \* shows, "/" being the page of the source), newLinks
                    \* and linksMutex (its holder, 0 when free)
    wk,             \* each worker's position, the url of its job and the
                    \* links it extracted
    pagesIndexed,   \* history: the url and the content of the latest
                    \* indexPage call of a worker
    errorLog,       \* history: the URLs logged with a fetch error
    \* ---- the maintenance of checkSources
    mpc,             \* position of the dispatcher loop
    clock,           \* time.Now(), in minutes since the dispatcher started
    maintenanceTime, \* the local maintenanceTime of checkSources
    maintenanceLog,  \* history: time and outcome of each performDBMaintenance
    \* ---- the process and its signal handler
    proc             \* the process of main: its goroutines and its resources

catalogVars == <<src, lockedBy, now, nticks>>
claimVars == <<pc, limit, snap, visited, cur, sel, held>>
orphanVars == <<orphans, reclaimed>>
dispVars == <<dpc, sourcesToCrawl, crawling>>
crawlVars == <<spc, tries, chan, sent, reports, depth, linksFound>>
\* the locals of an indexPage call and the tables it writes
callVars == <<page, pageInfo, tx, indexID, kwPos, attempt, keywordID, kwErr,
              before>>
tableVars == <<searchIndex, sourceSearchIndex, metaTags, keywords,
               keywordIndex, indexSeq, keywordSeq>>
indexVars == <<ipc, indexPageMutex, calls, callVars, tableVars>>
rulesVars == <<fn, rpc, rulesLeft, rule, retryI, outs, cid, retErr, kvStore>>
levelVars == <<configMaxDepth, cw, processCtx, wk, pagesIndexed, errorLog>>
maintVars == <<mpc, clock, maintenanceTime, maintenanceLog>>
shutVars == <<proc>>
vars == <<src, lockedBy, now, nticks, pc, limit, snap, visited, cur, sel, held,
          orphans, reclaimed, dpc, sourcesToCrawl, crawling,
          spc, tries, chan, sent, reports, depth, linksFound,
          ipc, indexPageMutex, page, searchIndex, pageInfo, tx, indexID,
          kwPos, attempt, keywordID, kwErr, before, calls, sourceSearchIndex,
          metaTags, keywords, keywordIndex, indexSeq, keywordSeq,
          fn, rpc, rulesLeft, rule, retryI, outs, cid, retErr, kvStore,
          call, result,
          configMaxDepth, cw, processCtx, wk, pagesIndexed, errorLog,
          mpc, clock, maintenanceTime, maintenanceLog, proc>>
\* what the catalog procedure and the source life cycle leave alone
outsideCatalog == <<dispVars, crawlVars, indexVars, rulesVars, call, result,
                    levelVars, maintVars, shutVars>>

\* the parts of the state a specification does not use keep these values
DispatchIdle ==
    /\ dpc = [d \in Dispatchers |-> "query"]
    /\ sourcesToCrawl = [d \in Dispatchers |-> <<>>]
    /\ crawling = [d \in Dispatchers |-> None]

CrawlIdle ==
    /\ spc = [i \in Sessions |-> "connect"]
    /\ tries = [i \in Sessions |-> 0]
    /\ chan = <<>>
    /\ sent = [i \in Sessions |-> 0]
    /\ reports = [i \in Sessions |-> <<>>]
    /\ depth = [i \in Sessions |-> 0]
    /\ linksFound = [i \in Sessions |-> FALSE]

\* the values of the locals of a worker that is not in indexPage: no
\* page, no open transaction (tx is in use from Begin to the commit or the
\* rollback), no tables remembered
NoPageInfo ==
    [sourceID |-> 0, BodyText |-> "", MetaTags |-> {}, keywords |-> <<>>]

NoTx ==
    [searchIndex |-> {}, sourceSearchIndex |-> {}, metaTags |-> EmptyBag,
     keywordIndex |-> EmptyBag]

NoTables ==
    [searchIndex |-> {}, sourceSearchIndex |-> {}, metaTags |-> EmptyBag,
     keywords |-> {}, keywordIndex |-> EmptyBag]

\* no call of indexPage is running
NoCall ==
    /\ ipc = [w \in Workers |-> "idle"]
    /\ indexPageMutex = None
    /\ page = [w \in Workers |-> None]
    /\ pageInfo = [w \in Workers |-> NoPageInfo]
    /\ tx = [w \in Workers |-> NoTx]
    /\ indexID = [w \in Workers |-> 0]
    /\ kwPos = [w \in Workers |-> 0]
    /\ attempt = [w \in Workers |-> 0]
    /\ keywordID = [w \in Workers |-> 0]
    /\ kwErr = [w \in Workers |-> <<>>]
    /\ before = [w \in Workers |-> NoTables]
    /\ calls = 0

IndexIdle ==
    /\ NoCall
    /\ searchIndex = {}
    /\ sourceSearchIndex = {}
    /\ metaTags = EmptyBag
    /\ keywords = {}
    /\ keywordIndex = EmptyBag
    /\ indexSeq = 0
    /\ keywordSeq = 0

\* no rule of the model is a rule with these fields
NoRule == [ActionType |-> "", found |-> FALSE, Ignore |-> FALSE, RetryCount |-> 0]

\* no function is being evaluated
NoFunction == call = <<>> /\ result = <<>>

\* CrawlWebsite has not reached its expansion loop
LevelIdle ==
    /\ configMaxDepth = 0
    /\ cw = [pc |-> "none", maxDepth |-> 0, currentDepth |-> 0, workers |-> 0,
             allLinks |-> <<>>, newLinksFound |-> 0, jobs |-> <<>>,
             received |-> <<>>, reported |-> <<>>]
    /\ processCtx = [wd |-> "/", newLinks |-> <<>>, linksMutex |-> 0]
    /\ wk = [w \in Workers |-> [pc |-> "idle", url |-> "", links |-> <<>>]]
    /\ pagesIndexed = {}
    /\ errorLog = {}

\* checkSources has not been started
MaintenanceIdle ==
    /\ mpc = "off"
    /\ clock = 0
    /\ maintenanceTime = 0
    /\ maintenanceLog = <<>>

\* main has not been started
ShutdownIdle ==
    proc = [pc |-> "off", sig |-> "wait", db |-> "closed", wd |-> "closed",
            session |-> "none", err |-> FALSE, driverCalls |-> 0,
            crawls |-> 0, inFlight |-> FALSE, statuses |-> <<>>]

\* the rule engine is not running and the key-value store is empty
RulesIdle ==
    /\ fn = "idle"
    /\ rpc = "next"
    /\ rulesLeft = 0
    /\ rule = NoRule
    /\ retryI = 0
    /\ outs = <<>>
    /\ cid = 0
    /\ retErr = "nil"
    /\ kvStore = {}

\* ---------------------------------------------------------- Sources table
\* A freshly inserted row: status DEFAULT 'new', disabled DEFAULT FALSE,
\* every timestamp and last_error NULL.
NewRow(st, dis) ==
    [status |-> st, disabled |-> dis, last_updated_at |-> NULL_TS,
     last_crawled_at |-> NULL_TS, last_error |-> NULL_TXT,
     last_error_at |-> NULL_TS]

\* ts < NOW() - INTERVAL age   (NULL compares as unknown, i.e. not true)
OlderThan(ts, t, age) == ts # NULL_TS /\ ts < t - age

\* WHERE clause of update_sources, evaluated with NOW() = t
Eligible_NoStaleRule(row, t) ==
    /\ row.disabled = FALSE
    /\ \/ row.last_updated_at = NULL_TS
       \/ (row.status = "error" /\ OlderThan(row.last_updated_at, t, ErrorRetryAge))
       \/ (row.status = "completed" /\ OlderThan(row.last_updated_at, t, CompletedAge))
       \/ row.status \in {"pending", "new", NULL_TXT}

Eligible_NoDisabledFilter(row, t) ==
    \/ (row.last_updated_at = NULL_TS \/ OlderThan(row.last_updated_at, t, StaleAge))
    \/ (row.status = "error" /\ OlderThan(row.last_updated_at, t, ErrorRetryAge))
    \/ (row.status = "completed" /\ OlderThan(row.last_updated_at, t, CompletedAge))
    \/ row.status \in {"pending", "new", NULL_TXT}

Eligible(row, t) ==
    /\ row.disabled = FALSE
    /\ \/ (row.last_updated_at = NULL_TS \/ OlderThan(row.last_updated_at, t, StaleAge))
       \/ (row.status = "error" /\ OlderThan(row.last_updated_at, t, ErrorRetryAge))
       \/ (row.status = "completed" /\ OlderThan(row.last_updated_at, t, CompletedAge))
       \/ row.status \in {"pending", "new", NULL_TXT}

\* trigger trg_update_sources_last_updated_before_update:
\* every UPDATE of a Sources row stamps last_updated_at
update_last_updated_at_column(row, t) == [row EXCEPT !.last_updated_at = t]

\* UPDATE Sources SET status = 'processing' (with the trigger)
ClaimRow(row, t) ==
    update_last_updated_at_column([row EXCEPT !.status = "processing"], t)

\* the two UPDATE statements of updateSourceState (with the trigger)
updateSourceStateRow(row, err, t) ==
    IF err # NoError
    THEN update_last_updated_at_column(
             [row EXCEPT !.last_crawled_at = t, !.status = "error",
                         !.last_error = err, !.last_error_at = t], t)
    ELSE update_last_updated_at_column(
             [row EXCEPT !.last_crawled_at = t, !.status = "completed"], t)

\* updateSourceState: when CheckConnection fails it returns before the
\* UPDATE, and an error of db.Exec is only logged; the row is written only
\* when the database does its part
updateSourceState(row, err, t, db) ==
    IF db = "ok" THEN updateSourceStateRow(row, err, t) ELSE row

\* ------------------------------------------- update_sources(limit_val)
\* The function is one statement of a READ COMMITTED transaction: it takes
\* its snapshot, fetches the qualifying rows in an order the query does not
\* fix (there is no ORDER BY), locks each fetched row (FOR UPDATE), waiting
\* for a concurrent holder and re-evaluating the WHERE clause on the row's
\* latest committed version, stops at LIMIT rows, updates the locked rows
\* and returns them; the locks are released at commit.  A statement runs
\* to completion within one value of the clock.

\* the call starts: the snapshot is taken
UpdateSourcesBegin(d, limit_val) ==
    /\ pc[d] = "idle"
    /\ pc' = [pc EXCEPT ![d] = "scan"]
    /\ limit' = [limit EXCEPT ![d] = limit_val]
    /\ snap' = [snap EXCEPT ![d] = {s \in Sources : Eligible(src[s], now)}]
    /\ visited' = [visited EXCEPT ![d] = {}]
    /\ cur' = [cur EXCEPT ![d] = None]
    /\ sel' = [sel EXCEPT ![d] = {}]
    /\ UNCHANGED held
    /\ UNCHANGED catalogVars
    /\ UNCHANGED orphanVars
    /\ UNCHANGED outsideCatalog

\* rows the scan may fetch next
ScanCandidates(d) == snap[d] \ visited[d]

\* LIMIT limit_val: the scan goes on while fewer rows are selected
ScanOpen_NoLimit(d) == ScanCandidates(d) # {}

ScanOpen(d) == Cardinality(sel[d]) < limit[d] /\ ScanCandidates(d) # {}

\* FOR UPDATE: may the scan take the row lock now
LockFree_NoLock(d, s) == TRUE

LockFree(d, s) == lockedBy[s] \in {None, d}

\* after the lock is granted the WHERE clause is evaluated again on the
\* latest committed version of the row
Recheck_Skipped(d, s) == TRUE

Recheck(d, s) == Eligible(src[s], now)

\* the row lock is granted: the row is selected, or skipped when it no
\* longer qualifies
LockRow(d, s) ==
    /\ visited' = [visited EXCEPT ![d] = @ \cup {s}]
    /\ cur' = [cur EXCEPT ![d] = None]
    /\ IF Recheck(d, s)
       THEN /\ sel' = [sel EXCEPT ![d] = @ \cup {s}]
            /\ lockedBy' = [lockedBy EXCEPT ![s] = d]
       ELSE UNCHANGED <<sel, lockedBy>>

\* the scan fetches its next row and asks for the row lock: it gets the
\* lock, or it waits for the transaction that holds it
UpdateSourcesFetch(d, s) ==
    /\ pc[d] = "scan"
    /\ cur[d] = None
    /\ ScanOpen(d)
    /\ s \in ScanCandidates(d)
    /\ IF LockFree(d, s)
       THEN LockRow(d, s)
       ELSE /\ cur' = [cur EXCEPT ![d] = s]
            /\ UNCHANGED <<visited, sel, lockedBy>>
    /\ UNCHANGED <<pc, limit, snap, held>>
    /\ UNCHANGED <<src, now, nticks>>
    /\ UNCHANGED orphanVars
    /\ UNCHANGED outsideCatalog

\* the holder has committed or aborted: the waiting scan gets the lock
UpdateSourcesLock(d) ==
    /\ pc[d] = "scan"
    /\ cur[d] # None
    /\ LockFree(d, cur[d])
    /\ LockRow(d, cur[d])
    /\ UNCHANGED <<pc, limit, snap, held>>
    /\ UNCHANGED <<src, now, nticks>>
    /\ UNCHANGED orphanVars
    /\ UNCHANGED outsideCatalog

\* UPDATE ... WHERE source_id IN (SelectedSources) RETURNING ..., and commit
UpdateSourcesCommit(d) ==
    /\ pc[d] = "scan"
    /\ cur[d] = None
    /\ ~ScanOpen(d)
    /\ src' = [s \in Sources |->
                 IF s \in sel[d] THEN ClaimRow(src[s], now) ELSE src[s]]
    /\ lockedBy' = [s \in Sources |-> IF lockedBy[s] = d THEN None ELSE lockedBy[s]]
    /\ held' = [held EXCEPT ![d] = sel[d]]
    /\ pc' = [pc EXCEPT ![d] = IF sel[d] = {} THEN "idle" ELSE "crawl"]
    /\ visited' = [visited EXCEPT ![d] = {}]
    /\ sel' = [sel EXCEPT ![d] = {}]
    /\ UNCHANGED <<limit, snap, cur>>
    /\ UNCHANGED <<now, nticks>>
    /\ UNCHANGED orphanVars
    /\ UNCHANGED outsideCatalog

\* the dispatcher d waits for a row lock held by another transaction
WaitsFor(d) ==
    IF pc[d] = "scan" /\ cur[d] # None /\ lockedBy[cur[d]] \notin {None, d}
    THEN lockedBy[cur[d]] ELSE None

RECURSIVE WaitChain(_, _)
WaitChain(d, k) ==
    IF d = None THEN None
    ELSE IF k = 0 THEN d ELSE WaitChain(WaitsFor(d), k - 1)

InWaitCycle(d) == \E k \in 1..NumDispatchers : WaitChain(d, k) = d

\* PostgreSQL's deadlock detector aborts a transaction of a wait cycle: the
\* call fails with "deadlock detected", nothing is written or returned
UpdateSourcesDeadlock(d) ==
    /\ pc[d] = "scan"
    /\ InWaitCycle(d)
    /\ lockedBy' = [s \in Sources |-> IF lockedBy[s] = d THEN None ELSE lockedBy[s]]
    /\ pc' = [pc EXCEPT ![d] = "idle"]
    /\ sel' = [sel EXCEPT ![d] = {}]
    /\ cur' = [cur EXCEPT ![d] = None]
    /\ visited' = [visited EXCEPT ![d] = {}]
    /\ UNCHANGED <<limit, snap, held>>
    /\ UNCHANGED <<src, now, nticks>>
    /\ UNCHANGED orphanVars
    /\ UNCHANGED outsideCatalog

\* --------------------------------- specification of concurrent claiming
\* The catalog at the time of the calls: rows in the shapes that inserting,
\* claiming and releasing produce, seen at the clock value ClaimNow.
ClaimNow == CompletedAge + StaleAge

ReleasedRow(st, err, age) ==
    [status |-> st, disabled |-> FALSE, last_updated_at |-> ClaimNow - age,
     last_crawled_at |-> ClaimNow - age, last_error |-> err,
     last_error_at |-> IF err = NULL_TXT THEN NULL_TS ELSE ClaimNow - age]

ClaimedRow(age) ==
    [NewRow("new", FALSE) EXCEPT !.status = "processing",
                                 !.last_updated_at = ClaimNow - age]

\* never crawled; disabled by the administrator; claimed more than 3 days
\* ago and never released; released with an error more than 15 minutes ago
ClaimRows ==
    << NewRow("new", FALSE), NewRow("pending", TRUE),
       ClaimedRow(StaleAge + 1),
       ReleasedRow("error", "e1", ErrorRetryAge + 1) >>

\* update_sources does not look at source_id and its scan has no order, so
\* the sources are interchangeable: the catalogs are taken up to a
\* renumbering of the sources
ClaimCatalogs ==
    {[s \in Sources |-> ClaimRows[f[s]]] :
        f \in {g \in [Sources -> 1..Len(ClaimRows)] :
                  \A s, t \in Sources : s < t => g[s] <= g[t]}}

InitClaim ==
    /\ src \in ClaimCatalogs
    /\ lockedBy = [s \in Sources |-> None]
    /\ now = ClaimNow
    /\ nticks = 0
    /\ pc = [d \in Dispatchers |-> "idle"]
    /\ limit = [d \in Dispatchers |-> 0]
    /\ snap = [d \in Dispatchers |-> {}]
    /\ visited = [d \in Dispatchers |-> {}]
    /\ cur = [d \in Dispatchers |-> None]
    /\ sel = [d \in Dispatchers |-> {}]
    /\ held = [d \in Dispatchers |-> {}]
    /\ orphans = {}
    /\ reclaimed = {}
    /\ DispatchIdle /\ CrawlIdle /\ IndexIdle /\ RulesIdle /\ NoFunction
    /\ LevelIdle /\ MaintenanceIdle /\ ShutdownIdle

NextClaim ==
    \/ \E d \in Dispatchers, limit_val \in 1..MaxLimit : UpdateSourcesBegin(d, limit_val)
    \/ \E d \in Dispatchers, s \in Sources : UpdateSourcesFetch(d, s)
    \/ \E d \in Dispatchers : UpdateSourcesLock(d)
    \/ \E d \in Dispatchers : UpdateSourcesCommit(d)
    \/ \E d \in Dispatchers : UpdateSourcesDeadlock(d)

SpecClaim == InitClaim /\ [][NextClaim]_vars

\* ------------------------------------------ the life cycle of a source
\* Claim, crawl, release and the passing of time.  SpecClaim shows that a
\* committed update_sources call selects only rows that qualify when it
\* commits, whatever runs beside it; here a call is one step.

Min(a, b) == IF a < b THEN a ELSE b

EligibleNow == {s \in DOMAIN src : Eligible(src[s], now)}

\* update_sources(limit_val) returns the rows S: any limit_val of the
\* qualifying rows (all of them when there are fewer)
UpdateSources(d, limit_val, S) ==
    /\ pc[d] = "idle"
    /\ S # {}
    /\ S \subseteq EligibleNow
    /\ Cardinality(S) = Min(limit_val, Cardinality(EligibleNow))
    /\ src' = [s \in DOMAIN src |-> IF s \in S THEN ClaimRow(src[s], now) ELSE src[s]]
    /\ held' = [held EXCEPT ![d] = S]
    /\ pc' = [pc EXCEPT ![d] = "crawl"]
    /\ reclaimed' = reclaimed \cup (S \cap orphans)
    /\ orphans' = orphans \ S
    /\ UNCHANGED <<lockedBy, now, nticks, limit, snap, visited, cur, sel>>
    /\ UNCHANGED outsideCatalog

\* the crawl of a claimed source ends and updateSourceState writes its
\* outcome
Release(d, s, err, db) ==
    /\ pc[d] = "crawl"
    /\ s \in held[d]
    /\ src' = [src EXCEPT ![s] = updateSourceState(src[s], err, now, db)]
    /\ held' = [held EXCEPT ![d] = @ \ {s}]
    /\ pc' = [pc EXCEPT ![d] = IF held[d] = {s} THEN "idle" ELSE "crawl"]
    /\ reclaimed' = reclaimed \ {s}
    /\ UNCHANGED <<lockedBy, now, nticks, limit, snap, visited, cur, sel, orphans>>
    /\ UNCHANGED outsideCatalog

\* abnormal exit of a dispatcher that holds claimed sources: it never
\* releases them, and those that no live dispatcher holds as well are
\* orphans.  Some other dispatcher stays alive, and the clock has a step of
\* more than 3 days left.
Die(d) ==
    /\ pc[d] = "crawl"
    /\ \E e \in Dispatchers \ {d} : pc[e] # "dead"
    /\ nticks < MaxTicks
    /\ pc' = [pc EXCEPT ![d] = "dead"]
    /\ orphans' = orphans \cup
                   {s \in held[d] : \A e \in Dispatchers \ {d} :
                                        pc[e] = "dead" \/ s \notin held[e]}
    /\ reclaimed' = reclaimed \ held[d]
    /\ held' = [held EXCEPT ![d] = {}]
    /\ UNCHANGED <<limit, snap, visited, cur, sel>>
    /\ UNCHANGED catalogVars
    /\ UNCHANGED outsideCatalog

\* the clock advances
Tick ==
    /\ nticks < MaxTicks
    /\ now' = now + StaleTick
    /\ nticks' = nticks + 1
    /\ UNCHANGED <<src, lockedBy>>
    /\ UNCHANGED claimVars
    /\ UNCHANGED orphanVars
    /\ UNCHANGED outsideCatalog

\* rows as INSERTed: status 'new' and enabled, the defaults of the table
InitRows == {NewRow("new", FALSE)}

Init ==
    /\ src \in [LifeSources -> InitRows]
    /\ lockedBy = [s \in Sources |-> None]
    /\ now = 0
    /\ nticks = 0
    /\ pc = [d \in Dispatchers |-> "idle"]
    /\ limit = [d \in Dispatchers |-> 0]
    /\ snap = [d \in Dispatchers |-> {}]
    /\ visited = [d \in Dispatchers |-> {}]
    /\ cur = [d \in Dispatchers |-> None]
    /\ sel = [d \in Dispatchers |-> {}]
    /\ held = [d \in Dispatchers |-> {}]
    /\ orphans = {}
    /\ reclaimed = {}
    /\ DispatchIdle /\ CrawlIdle /\ IndexIdle /\ RulesIdle /\ NoFunction
    /\ LevelIdle /\ MaintenanceIdle /\ ShutdownIdle

DispatcherStep(d) ==
    \/ \E limit_val \in 1..MaxLimit, S \in SUBSET LifeSources : UpdateSources(d, limit_val, S)
    \/ \E s \in LifeSources, err \in CrawlErrors \cup {NoError}, db \in DbOutcomes :
           Release(d, s, err, db)

Next ==
    \/ Tick
    \/ \E d \in Dispatchers : DispatcherStep(d)
    \/ \E d \in Dispatchers : Die(d)

Spec == Init /\ [][Next]_vars

\* the system does not halt while a live dispatcher or the clock can step
FairSpec == Spec /\ WF_vars(Next)

\* ------------------------------------------------ the dispatcher's loop
\* checkSources: query the catalog, crawl every source of the result one
\* after the other, and sleep for sleepTime when the query fails or finds
\* nothing.  The query is a plain SELECT: it sets no status and takes no
\* lock, and it does not look at the column disabled.

\* WHERE clause of the query of checkSources
CheckSourcesEligible(row, t) ==
    \/ row.last_crawled_at = NULL_TS
    \/ OlderThan(row.last_crawled_at, t, StaleAge)
    \/ row.status = "error" /\ OlderThan(row.last_crawled_at, t, ErrorRetryAge)
    \/ row.status = "completed" /\ OlderThan(row.last_crawled_at, t, CompletedAge)
    \/ row.status = "pending"

\* ORDER BY last_crawled_at ASC: NULLs come last, ties in any order
CrawledNotAfter(a, b) == b = NULL_TS \/ (a # NULL_TS /\ a <= b)

\* the results the query can deliver
CheckSourcesResults ==
    LET S == {s \in Sources : CheckSourcesEligible(src[s], now)}
        n == Cardinality(S)
    IN  {q \in [1..n -> S] :
           /\ \A i, j \in 1..n : i # j => q[i] # q[j]
           /\ \A i, j \in 1..n :
                i < j => CrawledNotAfter(src[q[i]].last_crawled_at,
                                         src[q[j]].last_crawled_at)}

\* what the dispatcher leaves alone
outsideDispatch == <<lockedBy, now, nticks, claimVars, orphanVars,
                     crawlVars, indexVars, rulesVars, call, result,
                  levelVars, maintVars, shutVars>>

\* db.Query fails: log, sleep, continue
CheckSourcesQueryError_Stop(d) ==
    /\ dpc[d] = "query"
    /\ dpc' = [dpc EXCEPT ![d] = "stopped"]
    /\ UNCHANGED <<src, sourcesToCrawl, crawling>>
    /\ UNCHANGED outsideDispatch

CheckSourcesQueryError(d) ==
    /\ dpc[d] = "query"
    /\ dpc' = [dpc EXCEPT ![d] = "sleep"]
    /\ UNCHANGED <<src, sourcesToCrawl, crawling>>
    /\ UNCHANGED outsideDispatch

\* the query returns the sources to crawl; with none of them the dispatcher
\* sleeps
CheckSourcesQuery(d, q) ==
    /\ dpc[d] = "query"
    /\ q \in CheckSourcesResults
    /\ sourcesToCrawl' = [sourcesToCrawl EXCEPT ![d] = q]
    /\ dpc' = [dpc EXCEPT ![d] = IF q = <<>> THEN "sleep" ELSE "crawl"]
    /\ UNCHANGED <<src, crawling>>
    /\ UNCHANGED outsideDispatch

\* time.Sleep(sleepTime) is over
CheckSourcesSleep(d) ==
    /\ dpc[d] = "sleep"
    /\ dpc' = [dpc EXCEPT ![d] = "query"]
    /\ UNCHANGED <<src, sourcesToCrawl, crawling>>
    /\ UNCHANGED outsideDispatch

\* the loop over sourcesToCrawl calls CrawlWebsite for the next source
CheckSourcesCrawl(d) ==
    /\ dpc[d] = "crawl"
    /\ crawling[d] = None
    /\ sourcesToCrawl[d] # <<>>
    /\ crawling' = [crawling EXCEPT ![d] = Head(sourcesToCrawl[d])]
    /\ sourcesToCrawl' = [sourcesToCrawl EXCEPT ![d] = Tail(@)]
    /\ UNCHANGED <<src, dpc>>
    /\ UNCHANGED outsideDispatch

\* CrawlWebsite returns, having called updateSourceState with its outcome;
\* after the last source the dispatcher queries again
CheckSourcesCrawled(d, err, db) ==
    /\ dpc[d] = "crawl"
    /\ crawling[d] # None
    /\ src' = [src EXCEPT ![crawling[d]] = updateSourceState(@, err, now, db)]
    /\ crawling' = [crawling EXCEPT ![d] = None]
    /\ dpc' = [dpc EXCEPT ![d] = IF sourcesToCrawl[d] = <<>> THEN "query" ELSE "crawl"]
    /\ UNCHANGED sourcesToCrawl
    /\ UNCHANGED outsideDispatch

\* the catalog when the dispatchers start
DispatchRows ==
    { NewRow("new", FALSE), NewRow("pending", TRUE),
      ReleasedRow("error", "e1", ErrorRetryAge + 1),
      ReleasedRow("completed", NULL_TXT, ErrorRetryAge + 1) }

InitDispatch ==
    /\ src \in [Sources -> DispatchRows]
    /\ lockedBy = [s \in Sources |-> None]
    /\ now = ClaimNow
    /\ nticks = 0
    /\ pc = [d \in Dispatchers |-> "idle"]
    /\ limit = [d \in Dispatchers |-> 0]
    /\ snap = [d \in Dispatchers |-> {}]
    /\ visited = [d \in Dispatchers |-> {}]
    /\ cur = [d \in Dispatchers |-> None]
    /\ sel = [d \in Dispatchers |-> {}]
    /\ held = [d \in Dispatchers |-> {}]
    /\ orphans = {}
    /\ reclaimed = {}
    /\ DispatchIdle /\ CrawlIdle /\ IndexIdle /\ RulesIdle /\ NoFunction
    /\ LevelIdle /\ MaintenanceIdle /\ ShutdownIdle

NextDispatch ==
    \/ \E d \in Dispatchers : CheckSourcesQueryError(d)
    \/ \E d \in Dispatchers, q \in UNION {[1..n -> Sources] : n \in 0..NumSources} :
           CheckSourcesQuery(d, q)
    \/ \E d \in Dispatchers : CheckSourcesSleep(d)
    \/ \E d \in Dispatchers : CheckSourcesCrawl(d)
    \/ \E d \in Dispatchers, err \in CrawlErrors \cup {NoError}, db \in DbOutcomes :
           CheckSourcesCrawled(d, err, db)

SpecDispatch == InitDispatch /\ [][NextDispatch]_vars

\* ------------------------------------------------------ a Crawl Session
\* CrawlWebsite(db, source, sel, SeleniumInstances): session i crawls the
\* source SessionSource(i) with the browser instance i it was handed, and
\* gives the instance back by sending it to the channel SeleniumInstances.
\* ConnectSelenium loops until selenium.NewRemote succeeds, so it returns
\* no error: the error branches of ConnectToSelenium and of
\* RefreshSeleniumConnection are never taken.

SessionSource(i) == ((i - 1) % NumSources) + 1

\* what a Crawl Session leaves alone
outsideCrawl == <<lockedBy, now, nticks, claimVars, orphanVars,
                  dispVars, indexVars, rulesVars, call, result,
                  levelVars, maintVars, shutVars>>

\* SeleniumInstances <- sel
SendInstance(i) ==
    /\ Len(chan) < NumSessions
    /\ chan' = Append(chan, i)
    /\ sent' = [sent EXCEPT ![i] = @ + 1]

\* updateSourceState(db, source.URL, err) of the session
ReportOutcome(i, err, db) ==
    /\ src' = [src EXCEPT ![SessionSource(i)] = updateSourceState(@, err, now, db)]
    /\ reports' = [reports EXCEPT ![i] =
                     Append(@, IF err # NoError THEN "error" ELSE "completed")]

\* ConnectSelenium: selenium.NewRemote fails, sleep 5 seconds, try again
ConnectSeleniumRetry(i) ==
    /\ spc[i] \in {"connect", "reconnect"}
    /\ tries[i] < MaxConnectTries
    /\ tries' = [tries EXCEPT ![i] = @ + 1]
    /\ UNCHANGED <<src, spc, chan, sent, reports, depth, linksFound>>
    /\ UNCHANGED outsideCrawl

\* ConnectToSelenium: ConnectSelenium returns the WebDriver
ConnectToSelenium(i) ==
    /\ spc[i] = "connect"
    /\ spc' = [spc EXCEPT ![i] = "initial"]
    /\ tries' = [tries EXCEPT ![i] = 0]
    /\ UNCHANGED <<src, chan, sent, reports, depth, linksFound>>
    /\ UNCHANGED outsideCrawl

\* CrawlInitialURL, getURLContent fails: the instance goes back to the
\* channel, the error is reported, and CrawlWebsite returns
CrawlInitialURLError_NoSend(i, err, db) ==
    /\ spc[i] = "initial"
    /\ ReportOutcome(i, err, db)
    /\ spc' = [spc EXCEPT ![i] = "quit"]
    /\ UNCHANGED <<tries, chan, sent, depth, linksFound>>
    /\ UNCHANGED outsideCrawl

CrawlInitialURLError(i, err, db) ==
    /\ spc[i] = "initial"
    /\ SendInstance(i)
    /\ ReportOutcome(i, err, db)
    /\ spc' = [spc EXCEPT ![i] = "quit"]
    /\ UNCHANGED <<tries, depth, linksFound>>
    /\ UNCHANGED outsideCrawl

\* CrawlInitialURL succeeds (consent, page info, IndexPage), then
\* TakeScreenshot
CrawlInitialURL(i) ==
    /\ spc[i] = "initial"
    /\ spc' = [spc EXCEPT ![i] = "pagesource"]
    /\ UNCHANGED <<src, tries, chan, sent, reports, depth, linksFound>>
    /\ UNCHANGED outsideCrawl

\* where CrawlWebsite goes after reporting the error of PageSource():
\* it returns
PageSourceErrorNext_NoReturn == "refresh"

PageSourceErrorNext == "quit"

\* pageSource.PageSource() fails
PageSourceError(i, err, db) ==
    /\ spc[i] = "pagesource"
    /\ SendInstance(i)
    /\ ReportOutcome(i, err, db)
    /\ spc' = [spc EXCEPT ![i] = PageSourceErrorNext]
    /\ UNCHANGED <<tries, depth, linksFound>>
    /\ UNCHANGED outsideCrawl

\* pageSource.PageSource() succeeds; extractLinks gives the initial links
PageSource(i, found) ==
    /\ spc[i] = "pagesource"
    /\ linksFound' = [linksFound EXCEPT ![i] = found]
    /\ spc' = [spc EXCEPT ![i] = "refresh"]
    /\ UNCHANGED <<src, tries, chan, sent, reports, depth>>
    /\ UNCHANGED outsideCrawl

\* the loop condition (currentDepth < maxDepth) && (newLinksFound > 0)
ExpansionGoesOn(dep, found) == dep < MaxDepth /\ found

\* RefreshSeleniumConnection: wd.Refresh() succeeds, or it fails and
\* ConnectSelenium is called
RefreshSeleniumConnection(i, ok) ==
    /\ spc[i] = "refresh"
    /\ spc' = [spc EXCEPT ![i] =
                 IF ~ok THEN "reconnect"
                 ELSE IF ExpansionGoesOn(depth[i], linksFound[i]) THEN "expand"
                 ELSE "final"]
    /\ UNCHANGED <<src, tries, chan, sent, reports, depth, linksFound>>
    /\ UNCHANGED outsideCrawl

\* ConnectSelenium of RefreshSeleniumConnection returns the WebDriver
Reconnected(i) ==
    /\ spc[i] = "reconnect"
    /\ spc' = [spc EXCEPT ![i] =
                 IF ExpansionGoesOn(depth[i], linksFound[i]) THEN "expand"
                 ELSE "final"]
    /\ tries' = [tries EXCEPT ![i] = 0]
    /\ UNCHANGED <<src, chan, sent, reports, depth, linksFound>>
    /\ UNCHANGED outsideCrawl

\* one iteration of the expansion loop: the workers process allLinks and
\* collect the new links
CrawlLevel(i, found) ==
    /\ spc[i] = "expand"
    /\ depth' = [depth EXCEPT ![i] = @ + 1]
    /\ linksFound' = [linksFound EXCEPT ![i] = found]
    /\ spc' = [spc EXCEPT ![i] =
                 IF ExpansionGoesOn(depth[i] + 1, found) THEN "expand"
                 ELSE "final"]
    /\ UNCHANGED <<src, tries, chan, sent, reports>>
    /\ UNCHANGED outsideCrawl

\* normal end: the instance goes back to the channel and success is
\* reported
CrawlWebsiteEnd(i, db) ==
    /\ spc[i] = "final"
    /\ SendInstance(i)
    /\ ReportOutcome(i, NoError, db)
    /\ spc' = [spc EXCEPT ![i] = "quit"]
    /\ UNCHANGED <<tries, depth, linksFound>>
    /\ UNCHANGED outsideCrawl

\* the deferred QuitSelenium runs and CrawlWebsite has returned: its local
\* variables are gone
QuitSelenium(i) ==
    /\ spc[i] = "quit"
    /\ spc' = [spc EXCEPT ![i] = "done"]
    /\ depth' = [depth EXCEPT ![i] = 0]
    /\ linksFound' = [linksFound EXCEPT ![i] = FALSE]
    /\ UNCHANGED <<src, tries, chan, sent, reports>>
    /\ UNCHANGED outsideCrawl

\* the sessions' sources have been claimed
InitCrawl ==
    /\ src = [s \in Sources |-> ClaimedRow(0)]
    /\ lockedBy = [s \in Sources |-> None]
    /\ now = ClaimNow
    /\ nticks = 0
    /\ pc = [d \in Dispatchers |-> "idle"]
    /\ limit = [d \in Dispatchers |-> 0]
    /\ snap = [d \in Dispatchers |-> {}]
    /\ visited = [d \in Dispatchers |-> {}]
    /\ cur = [d \in Dispatchers |-> None]
    /\ sel = [d \in Dispatchers |-> {}]
    /\ held = [d \in Dispatchers |-> {}]
    /\ orphans = {}
    /\ reclaimed = {}
    /\ DispatchIdle /\ CrawlIdle /\ IndexIdle /\ RulesIdle /\ NoFunction
    /\ LevelIdle /\ MaintenanceIdle /\ ShutdownIdle

NextCrawl ==
    \/ \E i \in Sessions : ConnectSeleniumRetry(i)
    \/ \E i \in Sessions : ConnectToSelenium(i)
    \/ \E i \in Sessions, err \in CrawlErrors, db \in DbOutcomes :
           CrawlInitialURLError(i, err, db)
    \/ \E i \in Sessions : CrawlInitialURL(i)
    \/ \E i \in Sessions, err \in CrawlErrors, db \in DbOutcomes :
           PageSourceError(i, err, db)
    \/ \E i \in Sessions, found \in BOOLEAN : PageSource(i, found)
    \/ \E i \in Sessions, ok \in BOOLEAN : RefreshSeleniumConnection(i, ok)
    \/ \E i \in Sessions : Reconnected(i)
    \/ \E i \in Sessions, found \in BOOLEAN : CrawlLevel(i, found)
    \/ \E i \in Sessions, db \in DbOutcomes : CrawlWebsiteEnd(i, db)
    \/ \E i \in Sessions : QuitSelenium(i)

SpecCrawl == InitCrawl /\ [][NextCrawl]_vars

\* -------------------------------------------------------------- indexPage
\* Every worker of every Crawl Session indexes its pages through
\* indexPage, which holds indexPageMutex from its first statement to its
\* return (defer Unlock).

\* what indexPage leaves alone
outsideIndex == <<src, lockedBy, now, nticks, claimVars, orphanVars,
                  dispVars, crawlVars, rulesVars, call, result,
                  levelVars, maintVars, shutVars>>

\* the tables an indexPage call can write, as committed
Tables ==
    [searchIndex |-> searchIndex, sourceSearchIndex |-> sourceSearchIndex,
     metaTags |-> metaTags, keywords |-> keywords,
     keywordIndex |-> keywordIndex]

\* the pages a worker can pass to indexPage: the source the page belongs
\* to, its text, its meta tags (name, content) and the list of keywords
\* that extractKeywords(pageInfo) returns for it
PageInfos ==
    { [sourceID |-> 1, BodyText |-> "v1",
       MetaTags |-> {<<"description", "a">>}, keywords |-> <<"hello">>],
      [sourceID |-> 1, BodyText |-> "v2",
       MetaTags |-> {<<"description", "b">>},
       keywords |-> <<"hello", "world">>],
      [sourceID |-> 1, BodyText |-> "v2",
       MetaTags |-> {}, keywords |-> <<>>] }

\* a worker calls indexPage(db, url, pageInfo)
IndexPageCall(w, url, info) ==
    /\ ipc[w] = "idle"
    /\ calls < MaxIndexCalls
    /\ calls' = calls + 1
    /\ ipc' = [ipc EXCEPT ![w] = "Lock"]
    /\ page' = [page EXCEPT ![w] = url]
    /\ pageInfo' = [pageInfo EXCEPT ![w] = info]
    /\ UNCHANGED <<indexPageMutex, tx, indexID, kwPos, attempt, keywordID,
                   kwErr, before, tableVars>>
    /\ UNCHANGED outsideIndex

\* sync.Mutex: Lock returns when the mutex is free
MutexFree_Always(m) == TRUE

MutexFree(m) == m = None

\* indexPageMutex.Lock()
IndexPageLock(w) ==
    /\ ipc[w] = "Lock"
    /\ MutexFree(indexPageMutex)
    /\ indexPageMutex' = w
    /\ ipc' = [ipc EXCEPT ![w] = "CheckConnection"]
    /\ before' = [before EXCEPT ![w] = Tables]
    /\ UNCHANGED <<page, pageInfo, tx, indexID, kwPos, attempt, keywordID,
                   kwErr, calls, tableVars>>
    /\ UNCHANGED outsideIndex

\* an error return of indexPage; once the transaction is open it is rolled
\* back first (rollbackTransaction), which discards what it wrote
IndexPageFail(w) ==
    /\ ipc' = [ipc EXCEPT ![w] = "failed"]
    /\ tx' = [tx EXCEPT ![w] = NoTx]

\* db.CheckConnection(config)
IndexCheckConnection(w, ok) ==
    /\ ipc[w] = "CheckConnection"
    /\ IF ok THEN /\ ipc' = [ipc EXCEPT ![w] = "Begin"]
                  /\ UNCHANGED tx
             ELSE IndexPageFail(w)
    /\ UNCHANGED <<indexPageMutex, page, pageInfo, indexID, kwPos, attempt,
                   keywordID, kwErr, before, calls, tableVars>>
    /\ UNCHANGED outsideIndex

\* db.Begin(): the transaction sees the committed rows
IndexBegin(w, ok) ==
    /\ ipc[w] = "Begin"
    /\ IF ok THEN /\ ipc' = [ipc EXCEPT ![w] = "insertOrUpdateSearchIndex"]
                  /\ tx' = [tx EXCEPT ![w] =
                              [searchIndex |-> searchIndex,
                               sourceSearchIndex |-> sourceSearchIndex,
                               metaTags |-> metaTags,
                               keywordIndex |-> keywordIndex]]
             ELSE IndexPageFail(w)
    /\ UNCHANGED <<indexPageMutex, page, pageInfo, indexID, kwPos, attempt,
                   keywordID, kwErr, before, calls, tableVars>>
    /\ UNCHANGED outsideIndex

\* INSERT INTO SearchIndex ... ON CONFLICT (page_url) DO UPDATE SET ...
\* content = EXCLUDED.content: a row of the same page_url is updated in
\* place, otherwise a row with the next index_id is inserted
UpsertSearchIndex_NoConflict(T, url, info, id) ==
    T \cup {[index_id |-> id, page_url |-> url, content |-> info.BodyText]}

UpsertSearchIndex(T, url, info, id) ==
    IF \E r \in T : r.page_url = url
    THEN {IF r.page_url = url THEN [r EXCEPT !.content = info.BodyText]
                              ELSE r : r \in T}
    ELSE T \cup {[index_id |-> id, page_url |-> url,
                  content |-> info.BodyText]}

\* RETURNING index_id
ReturningIndexID(T, url, id) ==
    IF \E r \in T : r.page_url = url
    THEN (CHOOSE r \in T : r.page_url = url).index_id
    ELSE id

\* what follows a keyword of the loop of insertKeywords: the next keyword,
\* or the commit when the list is exhausted
AfterKeyword(info, k) ==
    IF k > Len(info.keywords) THEN "commitTransaction"
    ELSE "insertKeywordWithRetries"

\* insertOrUpdateSearchIndex(tx, url, pageInfo): the upsert of SearchIndex
\* and the insert into SourceSearchIndex (ON CONFLICT DO NOTHING); failAt
\* is the statement that fails (0: none)
InsertOrUpdateSearchIndex(w, failAt) ==
    /\ ipc[w] = "insertOrUpdateSearchIndex"
    /\ LET id == indexSeq + 1
           T == UpsertSearchIndex(tx[w].searchIndex, page[w], pageInfo[w], id)
           rid == ReturningIndexID(tx[w].searchIndex, page[w], id)
       IN  /\ indexSeq' = IF failAt = 1 THEN indexSeq ELSE id
           /\ IF failAt = 0
              THEN /\ ipc' = [ipc EXCEPT ![w] = "insertMetaTags"]
                   /\ indexID' = [indexID EXCEPT ![w] = rid]
                   /\ tx' = [tx EXCEPT ![w].searchIndex = T,
                                       ![w].sourceSearchIndex =
                                           @ \cup {<<pageInfo[w].sourceID, rid>>}]
              ELSE /\ IndexPageFail(w)
                   /\ UNCHANGED indexID
    /\ UNCHANGED <<indexPageMutex, page, pageInfo, kwPos, attempt, keywordID,
                   kwErr, before, calls, searchIndex, sourceSearchIndex,
                   metaTags, keywords, keywordIndex, keywordSeq>>
    /\ UNCHANGED outsideIndex

\* the rows insertMetaTags inserts: one per entry of the map
MetaTagRows(id, tags) == SetToBag({<<id, t[1], t[2]>> : t \in tags})

\* insertMetaTags(tx, indexID, pageInfo.MetaTags): an INSERT per entry
InsertMetaTags(w, ok) ==
    /\ ipc[w] = "insertMetaTags"
    /\ IF ok
       THEN /\ tx' = [tx EXCEPT ![w].metaTags =
                        @ (+) MetaTagRows(indexID[w], pageInfo[w].MetaTags)]
            /\ ipc' = [ipc EXCEPT ![w] = AfterKeyword(pageInfo[w], 1)]
            /\ kwPos' = [kwPos EXCEPT ![w] = 1]
       ELSE /\ IndexPageFail(w)
            /\ UNCHANGED kwPos
    /\ UNCHANGED <<indexPageMutex, page, pageInfo, indexID, attempt,
                   keywordID, kwErr, before, calls, tableVars>>
    /\ UNCHANGED outsideIndex

\* insertKeywordWithRetries(db, keyword), its entry: db.CheckConnection
KeywordCheckConnection(w, ok) ==
    /\ ipc[w] = "insertKeywordWithRetries"
    /\ IF ok THEN /\ ipc' = [ipc EXCEPT ![w] = "QueryRow"]
                  /\ UNCHANGED tx
             ELSE IndexPageFail(w)
    /\ attempt' = [attempt EXCEPT ![w] = 0]
    /\ kwErr' = [kwErr EXCEPT ![w] = <<>>]
    /\ UNCHANGED <<indexPageMutex, page, pageInfo, indexID, kwPos,
                   keywordID, before, calls, tableVars>>
    /\ UNCHANGED outsideIndex

\* what the keyword upsert can do: it returns the id, it is the victim of a
\* deadlock ("deadlock detected"), or it fails with another error
KeywordOutcomes == {"ok", "deadlock", "error"}

\* const maxRetries = 3
maxRetries == 3

\* i == maxRetries-1: the pass of the loop is the last one
LastAttempt_Never(i) == FALSE

LastAttempt(i) == i = maxRetries - 1

\* INSERT INTO Keywords (keyword) ... ON CONFLICT (keyword) DO UPDATE SET
\* keyword = EXCLUDED.keyword: the row of the keyword stays as it is,
\* otherwise a row with the next keyword_id is inserted
UpsertKeyword_NoConflict(K, keyword, id) ==
    K \cup {[keyword_id |-> id, keyword |-> keyword]}

UpsertKeyword(K, keyword, id) ==
    IF \E r \in K : r.keyword = keyword THEN K
    ELSE K \cup {[keyword_id |-> id, keyword |-> keyword]}

\* RETURNING keyword_id
ReturningKeywordID(K, keyword, id) ==
    IF \E r \in K : r.keyword = keyword
    THEN (CHOOSE r \in K : r.keyword = keyword).keyword_id
    ELSE id

\* one pass of the retry loop of insertKeywordWithRetries: db.QueryRow runs
\* the upsert on db, outside the transaction tx, so the row is committed
\* at once; a deadlock leads to another pass unless this was the last one
InsertKeywordAttempt(w, out) ==
    /\ ipc[w] = "QueryRow"
    /\ attempt[w] < maxRetries
    /\ kwErr' = [kwErr EXCEPT ![w] = Append(@, out)]
    /\ LET keyword == pageInfo[w].keywords[kwPos[w]]
           id == keywordSeq + 1
       IN  CASE out = "ok" ->
                  /\ keywords' = UpsertKeyword(keywords, keyword, id)
                  /\ keywordSeq' = id
                  /\ keywordID' = [keywordID EXCEPT ![w] =
                                     ReturningKeywordID(keywords, keyword, id)]
                  /\ ipc' = [ipc EXCEPT ![w] = "KeywordIndex"]
                  /\ UNCHANGED <<tx, attempt>>
            [] out = "deadlock" /\ ~LastAttempt(attempt[w]) ->
                  /\ attempt' = [attempt EXCEPT ![w] = @ + 1]
                  /\ UNCHANGED <<ipc, tx, keywords, keywordSeq, keywordID>>
            [] OTHER ->
                  /\ IndexPageFail(w)
                  /\ UNCHANGED <<attempt, keywords, keywordSeq, keywordID>>
    /\ UNCHANGED <<indexPageMutex, page, pageInfo, indexID, kwPos, before,
                   calls, searchIndex, sourceSearchIndex, metaTags,
                   keywordIndex, indexSeq>>
    /\ UNCHANGED outsideIndex

\* insertKeywords, the rest of the loop body:
\* tx.Exec(INSERT INTO KeywordIndex (keyword_id, index_id))
InsertKeywordIndex(w, ok) ==
    /\ ipc[w] = "KeywordIndex"
    /\ IF ok
       THEN /\ tx' = [tx EXCEPT ![w].keywordIndex =
                        @ (+) SetToBag({<<keywordID[w], indexID[w]>>})]
            /\ ipc' = [ipc EXCEPT ![w] =
                         AfterKeyword(pageInfo[w], kwPos[w] + 1)]
            /\ kwPos' = [kwPos EXCEPT ![w] = @ + 1]
       ELSE /\ IndexPageFail(w)
            /\ UNCHANGED kwPos
    /\ UNCHANGED <<indexPageMutex, page, pageInfo, indexID, attempt,
                   keywordID, kwErr, before, calls, tableVars>>
    /\ UNCHANGED outsideIndex

\* commitTransaction(tx): the rows the transaction wrote become the
\* committed ones
CommitTransaction(w, ok) ==
    /\ ipc[w] = "commitTransaction"
    /\ IF ok
       THEN /\ searchIndex' = tx[w].searchIndex
            /\ sourceSearchIndex' = tx[w].sourceSearchIndex
            /\ metaTags' = tx[w].metaTags
            /\ keywordIndex' = tx[w].keywordIndex
            /\ ipc' = [ipc EXCEPT ![w] = "return"]
            /\ tx' = [tx EXCEPT ![w] = NoTx]
       ELSE /\ IndexPageFail(w)
            /\ UNCHANGED <<searchIndex, sourceSearchIndex, metaTags,
                           keywordIndex>>
    /\ UNCHANGED <<indexPageMutex, page, pageInfo, indexID, kwPos, attempt,
                   keywordID, kwErr, before, calls, keywords, indexSeq,
                   keywordSeq>>
    /\ UNCHANGED outsideIndex

\* the positions at which indexPage returns: after the commit, or at one of
\* its error returns; the deferred Unlock runs at each of them
IndexPageReturns_SuccessOnly == {"return"}

IndexPageReturns == {"return", "failed"}

\* the deferred indexPageMutex.Unlock() and the return
IndexPageUnlock(w) ==
    /\ ipc[w] \in IndexPageReturns
    /\ indexPageMutex' = None
    /\ ipc' = [ipc EXCEPT ![w] = "idle"]
    /\ page' = [page EXCEPT ![w] = None]
    /\ pageInfo' = [pageInfo EXCEPT ![w] = NoPageInfo]
    /\ indexID' = [indexID EXCEPT ![w] = 0]
    /\ kwPos' = [kwPos EXCEPT ![w] = 0]
    /\ attempt' = [attempt EXCEPT ![w] = 0]
    /\ keywordID' = [keywordID EXCEPT ![w] = 0]
    /\ kwErr' = [kwErr EXCEPT ![w] = <<>>]
    /\ before' = [before EXCEPT ![w] = NoTables]
    /\ UNCHANGED <<tx, calls, tableVars>>
    /\ UNCHANGED outsideIndex

\* the steps of a worker that is inside indexPage
IndexPageRun(w) ==
    \/ \E ok \in BOOLEAN : IndexCheckConnection(w, ok)
    \/ \E ok \in BOOLEAN : IndexBegin(w, ok)
    \/ \E failAt \in 0..2 : InsertOrUpdateSearchIndex(w, failAt)
    \/ \E ok \in BOOLEAN : InsertMetaTags(w, ok)
    \/ \E ok \in BOOLEAN : KeywordCheckConnection(w, ok)
    \/ \E out \in KeywordOutcomes : InsertKeywordAttempt(w, out)
    \/ \E ok \in BOOLEAN : InsertKeywordIndex(w, ok)
    \/ \E ok \in BOOLEAN : CommitTransaction(w, ok)
    \/ IndexPageUnlock(w)

NextIndex ==
    \/ \E w \in Workers, url \in Pages, info \in PageInfos :
           IndexPageCall(w, url, info)
    \/ \E w \in Workers : IndexPageLock(w)
    \/ \E w \in Workers : IndexPageRun(w)

\* no worker is in indexPage and the tables are empty
InitIndex == InitCrawl

SpecIndex == InitIndex /\ [][NextIndex]_vars

\* the calls of indexPage for one page (which page is indexed plays no
\* part in how the mutex is taken and given back)
NextIndexOnePage ==
    \/ \E w \in Workers, info \in PageInfos : IndexPageCall(w, 1, info)
    \/ \E w \in Workers : IndexPageLock(w)
    \/ \E w \in Workers : IndexPageRun(w)

\* a goroutine that is inside indexPage keeps running: every statement of
\* the body returns, with or without an error
FairIndex ==
    /\ InitIndex
    /\ [][NextIndexOnePage]_vars
    /\ WF_vars(\E w \in Workers : IndexPageRun(w))

\* workers between acquiring and releasing indexPageMutex
InsideIndexPage ==
    {w \in Workers : ipc[w] \notin {"idle", "Lock"}}

\* ------------------------------------------------------- the rule engine
\* Action rules are executed by executeActionRules (the rules of a ruleset
\* or rule group) and by executeActionRuleByName; scraping rules by
\* executeScrapingRulesInRuleset and executeScrapingRulesInRuleGroup. The
\* rules of the model have no wait conditions and no conditions, so an
\* execution of an action rule is the execution of its action. The
\* statistics counter ctx.Status.TotalActions plays no part in what the
\* engine does and is left out.

\* what the rule engine leaves alone
outsideRules == <<src, lockedBy, now, nticks, claimVars, orphanVars,
                  dispVars, crawlVars, indexVars, call, result,
                  levelVars, maintVars, shutVars>>

ContextIDs == 1..NumContexts

\* the action rules: action_type, whether the selectors find an element on
\* the page, and error_handling {ignore, retry_count}
ActionRules ==
    [ActionType : {"click", "scroll"}, found : BOOLEAN, Ignore : BOOLEAN,
     RetryCount : 0..MaxRetryCount]

\* what an execution can return: nil, an error, or an error whose message
\* contains "Critical"
RuleOutcomes == {"nil", "error", "Critical"}

\* executeActionClick: when findElementBySelectorType finds no element, the
\* error is set to nil and nil is returned; otherwise the result of Click()
ExecuteActionClick(r) == IF r.found THEN RuleOutcomes ELSE {"nil"}

\* executeActionRule: the results the execution of rule r can have
ExecuteActionRule(r) ==
    IF r.ActionType = "click" THEN ExecuteActionClick(r) ELSE RuleOutcomes

\* the retry loop is entered after a failed execution:
\* !r.ErrorHandling.Ignore and r.ErrorHandling.RetryCount > 0
RetryAllowed_IgnoreIgnored(r) == r.RetryCount > 0

RetryAllowed(r) == ~r.Ignore /\ r.RetryCount > 0

\* executeActionRules(ctx, rules, wd) is called with a list of n rules
ExecuteActionRulesStart(n) ==
    /\ fn = "idle"
    /\ fn' = "executeActionRules"
    /\ rulesLeft' = n
    /\ rpc' = "next"
    /\ UNCHANGED <<rule, retryI, outs, cid, retErr, kvStore>>
    /\ UNCHANGED outsideRules

\* for _, r := range rules: the next rule of the list is r
ExecuteActionRulesNext(r) ==
    /\ fn = "executeActionRules" /\ rpc = "next"
    /\ rulesLeft > 0
    /\ rule' = r
    /\ outs' = <<>>
    /\ rpc' = "exec"
    /\ UNCHANGED <<fn, rulesLeft, retryI, cid, retErr, kvStore>>
    /\ UNCHANGED outsideRules

\* the list is exhausted: executeActionRules returns
ExecuteActionRulesEnd ==
    /\ fn = "executeActionRules" /\ rpc = "next"
    /\ rulesLeft = 0
    /\ rpc' = "returned"
    /\ UNCHANGED <<fn, rulesLeft, rule, retryI, outs, cid, retErr, kvStore>>
    /\ UNCHANGED outsideRules

\* executeRule, the first execution of the rule: an error is logged, and
\* the retry loop follows if the rule allows it; otherwise executeRule
\* returns and the loop of executeActionRules goes on
ExecuteRule(out) ==
    /\ fn = "executeActionRules" /\ rpc = "exec"
    /\ out \in ExecuteActionRule(rule)
    /\ outs' = Append(outs, out)
    /\ IF out # "nil" /\ RetryAllowed(rule)
       THEN /\ rpc' = "retry"
            /\ retryI' = 0
            /\ UNCHANGED rulesLeft
       ELSE /\ rpc' = "next"
            /\ rulesLeft' = rulesLeft - 1
            /\ UNCHANGED retryI
    /\ UNCHANGED <<fn, rule, cid, retErr, kvStore>>
    /\ UNCHANGED outsideRules

\* executeRule, one pass of the retry loop (i < RetryCount): the loop ends
\* at the first success or when i reaches RetryCount
ExecuteRuleRetry(out) ==
    /\ fn = "executeActionRules" /\ rpc = "retry"
    /\ retryI < rule.RetryCount
    /\ out \in ExecuteActionRule(rule)
    /\ outs' = Append(outs, out)
    /\ IF out = "nil" \/ retryI + 1 = rule.RetryCount
       THEN /\ rpc' = "next"
            /\ rulesLeft' = rulesLeft - 1
            /\ retryI' = 0
       ELSE /\ retryI' = retryI + 1
            /\ UNCHANGED <<rpc, rulesLeft>>
    /\ UNCHANGED <<fn, rule, cid, retErr, kvStore>>
    /\ UNCHANGED outsideRules

\* executeActionRuleByName(ruleName, wd, ctx): GetActionRuleByName finds
\* rule r, or fails and the function returns
ExecuteActionRuleByNameStart(r, ok) ==
    /\ fn = "idle"
    /\ fn' = "executeActionRuleByName"
    /\ IF ok THEN /\ rule' = r
                  /\ rpc' = "exec"
             ELSE /\ rpc' = "returned"
                  /\ UNCHANGED rule
    /\ UNCHANGED <<rulesLeft, retryI, outs, cid, retErr, kvStore>>
    /\ UNCHANGED outsideRules

\* executeActionRuleByName, the first execution of the rule
ExecuteActionRuleByName(out) ==
    /\ fn = "executeActionRuleByName" /\ rpc = "exec"
    /\ out \in ExecuteActionRule(rule)
    /\ outs' = Append(outs, out)
    /\ IF out # "nil" /\ RetryAllowed(rule)
       THEN /\ rpc' = "retry"
            /\ retryI' = 0
       ELSE /\ rpc' = "returned"
            /\ UNCHANGED retryI
    /\ UNCHANGED <<fn, rulesLeft, rule, cid, retErr, kvStore>>
    /\ UNCHANGED outsideRules

\* executeActionRuleByName, one pass of its retry loop
ExecuteActionRuleByNameRetry(out) ==
    /\ fn = "executeActionRuleByName" /\ rpc = "retry"
    /\ retryI < rule.RetryCount
    /\ out \in ExecuteActionRule(rule)
    /\ outs' = Append(outs, out)
    /\ IF out = "nil" \/ retryI + 1 = rule.RetryCount
       THEN /\ rpc' = "returned"
            /\ retryI' = 0
       ELSE /\ retryI' = retryI + 1
            /\ UNCHANGED rpc
    /\ UNCHANGED <<fn, rulesLeft, rule, cid, retErr, kvStore>>
    /\ UNCHANGED outsideRules

\* the entries a ruleset or rule group can put into the key-value store
EnvEntries ==
    {[key |-> "a", persistent |-> TRUE], [key |-> "b", persistent |-> FALSE]}

\* rs.SetEnv(cid) / rg.SetEnv(cid): the environment of the ruleset or rule
\* group is stored under the context-id
SetEnv(K, c, env) ==
    K \cup {[cid |-> c, key |-> e.key, persistent |-> e.persistent] : e \in env}

\* cmn.KVStore.DeleteNonPersistentByCID(cid)
DeleteNonPersistentByCID(K, c) ==
    {e \in K : ~(e.cid = c /\ ~e.persistent)}

ScrapingFunctions ==
    {"executeScrapingRulesInRuleset", "executeScrapingRulesInRuleGroup"}

\* executeScrapingRulesInRuleset(ctx, rs, wd) or
\* executeScrapingRulesInRuleGroup(ctx, rg, wd) is called for context c
\* with n rules: the environment is set up
ExecuteScrapingRulesStart(f, c, n, env) ==
    /\ fn = "idle"
    /\ fn' = f
    /\ cid' = c
    /\ rulesLeft' = n
    /\ kvStore' = SetEnv(kvStore, c, env)
    /\ rpc' = "next"
    /\ UNCHANGED <<rule, retryI, outs, retErr>>
    /\ UNCHANGED outsideRules

\* executeScrapingRulesInRuleset, one rule of the loop: an error that
\* contains "Critical" is returned at once, another error is logged
ExecuteScrapingRuleInRuleset(out) ==
    /\ fn = "executeScrapingRulesInRuleset" /\ rpc = "next"
    /\ rulesLeft > 0
    /\ outs' = Append(outs, out)
    /\ IF out = "Critical"
       THEN /\ rpc' = "returned"
            /\ retErr' = out
            /\ UNCHANGED rulesLeft
       ELSE /\ rulesLeft' = rulesLeft - 1
            /\ UNCHANGED <<rpc, retErr>>
    /\ UNCHANGED <<fn, rule, retryI, cid, kvStore>>
    /\ UNCHANGED outsideRules

\* executeScrapingRulesInRuleGroup, one rule of the loop: err is kept and
\* the loop goes on
ExecuteScrapingRuleInRuleGroup(out) ==
    /\ fn = "executeScrapingRulesInRuleGroup" /\ rpc = "next"
    /\ rulesLeft > 0
    /\ outs' = Append(outs, out)
    /\ retErr' = out
    /\ rulesLeft' = rulesLeft - 1
    /\ UNCHANGED <<fn, rpc, rule, retryI, cid, kvStore>>
    /\ UNCHANGED outsideRules

\* the end of either loop: the environment is reset and the function
\* returns (the ruleset nil, the rule group the error of its last rule)
ExecuteScrapingRulesEnd ==
    /\ fn \in ScrapingFunctions /\ rpc = "next"
    /\ rulesLeft = 0
    /\ kvStore' = DeleteNonPersistentByCID(kvStore, cid)
    /\ retErr' = IF fn = "executeScrapingRulesInRuleset" THEN "nil" ELSE retErr
    /\ rpc' = "returned"
    /\ UNCHANGED <<fn, rulesLeft, rule, retryI, outs, cid>>
    /\ UNCHANGED outsideRules

\* the caller goes on; the key-value store stays as the function left it
RulesReturn ==
    /\ fn # "idle" /\ rpc = "returned"
    /\ fn' = "idle"
    /\ rpc' = "next"
    /\ rulesLeft' = 0
    /\ rule' = NoRule
    /\ retryI' = 0
    /\ outs' = <<>>
    /\ cid' = 0
    /\ retErr' = "nil"
    /\ UNCHANGED kvStore
    /\ UNCHANGED outsideRules

NextRules ==
    \/ \E n \in 0..MaxRules : ExecuteActionRulesStart(n)
    \/ \E r \in ActionRules : ExecuteActionRulesNext(r)
    \/ ExecuteActionRulesEnd
    \/ \E out \in RuleOutcomes : ExecuteRule(out)
    \/ \E out \in RuleOutcomes : ExecuteRuleRetry(out)
    \/ \E r \in ActionRules, ok \in BOOLEAN : ExecuteActionRuleByNameStart(r, ok)
    \/ \E out \in RuleOutcomes : ExecuteActionRuleByName(out)
    \/ \E out \in RuleOutcomes : ExecuteActionRuleByNameRetry(out)
    \/ \E f \in ScrapingFunctions, c \in ContextIDs, n \in 0..MaxRules,
          env \in SUBSET EnvEntries : ExecuteScrapingRulesStart(f, c, n, env)
    \/ \E out \in RuleOutcomes : ExecuteScrapingRuleInRuleset(out)
    \/ \E out \in RuleOutcomes : ExecuteScrapingRuleInRuleGroup(out)
    \/ ExecuteScrapingRulesEnd
    \/ RulesReturn

\* the engine is not running and the key-value store is empty
InitRules == InitCrawl

SpecRules == InitRules /\ [][NextRules]_vars

\* --------------------------------- functions of the engine and the workers
\* Each function is evaluated on arguments drawn from small sets: call holds
\* the function and its arguments, result what it returns.

\* what an evaluation leaves alone
outsideFunctions == <<src, lockedBy, now, nticks, claimVars, orphanVars,
                      dispVars, crawlVars, indexVars, rulesVars,
                      levelVars, maintVars, shutVars>>

\* the function returns to its caller
FunctionReturn ==
    /\ call # <<>>
    /\ call' = <<>>
    /\ result' = <<>>
    /\ UNCHANGED outsideFunctions

\* document languages
Langs == {"en", "it"}

\* the Conditions of a rule: which of the keys element, language and
\* plugin_call the map has, and the language it asks for
RuleConditions ==
    [keys : SUBSET {"element", "language", "plugin_call"}, language : Langs]

\* what the page answers: FindElement of the condition's element succeeds,
\* the value of document.documentElement.lang ("error": ExecuteScript
\* fails), the plugin is registered, the value its script returns
PageAnswers ==
    [elementFound : BOOLEAN, lang : Langs \cup {"error"},
     pluginExists : BOOLEAN, rval : {"true", "false", "error"}]

\* the element and language checks both functions share: canProceed starts
\* true and each failed check sets it to false
ElementAndLanguage(c, p) ==
    /\ "element" \in c.keys => p.elementFound
    /\ "language" \in c.keys => p.lang = c.language

\* checkActionConditions: after the element and language checks, a
\* plugin_call condition assigns canProceed from the plugin alone
CheckActionConditions(c, p) ==
    IF c.keys = {} THEN TRUE
    ELSE IF "plugin_call" \in c.keys
         THEN p.pluginExists /\ p.rval = "true"
         ELSE ElementAndLanguage(c, p)

\* checkScrapingConditions
CheckScrapingConditions(c, p) ==
    IF c.keys = {} THEN TRUE ELSE ElementAndLanguage(c, p)

\* executeActionRule / shouldExecuteScrapingRule: the rule is applied when
\* it has no conditions or its conditions hold
RuleApplies(c, p) ==
    /\ call = <<>>
    /\ \/ /\ call' = <<"executeActionRule", c, p>>
          /\ result' = <<c.keys = {} \/ CheckActionConditions(c, p)>>
       \/ /\ call' = <<"executeScrapingRule", c, p>>
          /\ result' = <<c.keys = {} \/ CheckScrapingConditions(c, p)>>
    /\ UNCHANGED outsideFunctions

\* the loop of executeActionRule over the wait conditions, each given by
\* what executeWaitCondition returns for it: TRUE when one returns an error
RECURSIVE WaitConditionFails(_)
WaitConditionFails(waitErrs) ==
    IF waitErrs = <<>> THEN FALSE
    ELSE IF Head(waitErrs) THEN TRUE
    ELSE WaitConditionFails(Tail(waitErrs))

\* executeActionRule(ctx, r, wd) for a rule of a supported action type
\* whose action succeeds: whether the action is performed, and the error
\* returned
ExecuteGuardedActionRule(waitErrs, c, p) ==
    /\ call = <<>>
    /\ call' = <<"executeActionRule", c, p, waitErrs>>
    /\ result' = IF WaitConditionFails(waitErrs) THEN <<FALSE, "wait condition">>
                 ELSE IF c.keys = {} \/ CheckActionConditions(c, p)
                      THEN <<TRUE, "nil">>
                      ELSE <<FALSE, "nil">>
    /\ UNCHANGED outsideFunctions

\* strings of at most n characters, as sequences
Strings(n) == UNION {[1..k -> {"a", "b"}] : k \in 0..n}

\* strings.Contains(s, sub)
Contains(s, sub) ==
    \E i \in 0..(Len(s) - Len(sub)) : SubSeq(s, i + 1, i + Len(sub)) = sub

\* the loop of checkActionPreConditions and checkScrapingPreConditions:
\* every pattern of the list assigns canProceed
RECURSIVE PreConditionsLoop(_, _, _)
PreConditionsLoop(patterns, url, canProceed) ==
    IF patterns = <<>> THEN canProceed
    ELSE PreConditionsLoop(Tail(patterns), url, Contains(url, Head(patterns)))

\* checkActionPreConditions(conditions, url)
CheckActionPreConditions(patterns, url) ==
    PreConditionsLoop(patterns, url, TRUE)

\* checkScrapingPreConditions(conditions, url)
CheckScrapingPreConditions(patterns, url) ==
    PreConditionsLoop(patterns, url, TRUE)

\* the pre-condition of an execution plan entry is checked for the URL
CheckPreConditions(patterns, url) ==
    /\ call = <<>>
    /\ \/ /\ call' = <<"checkActionPreConditions", patterns, url>>
          /\ result' = <<CheckActionPreConditions(patterns, url)>>
       \/ /\ call' = <<"checkScrapingPreConditions", patterns, url>>
          /\ result' = <<CheckScrapingPreConditions(patterns, url)>>
    /\ UNCHANGED outsideFunctions

\* a selector together with what the page answers for it: whether the driver
\* finds an element, and how the element compares with the attribute and
\* with the value the selector asks for ("none": the selector names none)
Selectors ==
    [found : BOOLEAN, attribute : {"none", "match", "differ"},
     value : {"none", "match", "differ"}]

\* matchValue(wdf, selector)
MatchValue(s) == s.value = "match"

\* the body of the loop of findElementBySelectorType for a found element:
\* TRUE when the loop breaks on this selector
SelectorMatches(s) ==
    LET matchL2 == IF s.attribute # "none" THEN s.attribute = "match" ELSE TRUE
        matchL3 == FALSE
    IN  IF matchL3 /\ s.value # "none" THEN MatchValue(s) ELSE matchL2

\* findElementBySelectorType(wd, selectors) from selector k on, wdf being the
\* element held so far: the index of the selector whose element is returned,
\* 0 for nil
RECURSIVE FindElementBySelectorType(_, _, _)
FindElementBySelectorType(selectors, k, wdf) ==
    IF k > Len(selectors) THEN wdf
    ELSE IF selectors[k].found /\ SelectorMatches(selectors[k]) THEN k
    ELSE FindElementBySelectorType(selectors, k + 1,
                                   IF selectors[k].found THEN k ELSE 0)

\* the error findElementBySelectorType returns with the element: the err of
\* the last findElementByType call of the loop, nil (FALSE) before the
\* first
RECURSIVE FindElementError(_, _, _)
FindElementError(selectors, k, err) ==
    IF k > Len(selectors) THEN err
    ELSE IF selectors[k].found /\ SelectorMatches(selectors[k]) THEN FALSE
    ELSE FindElementError(selectors, k + 1, ~selectors[k].found)

\* an element of a rule is looked up on the page: the element and whether
\* the error is non-nil
FindElement(selectors) ==
    /\ call = <<>>
    /\ call' = <<"findElementBySelectorType", selectors>>
    /\ result' = <<FindElementBySelectorType(selectors, 1, 0),
                   FindElementError(selectors, 1, FALSE)>>
    /\ UNCHANGED outsideFunctions

\* what executeScrapingRule returns, as a sequence of JSON tokens: nothing
\* when the rule does not apply, else the members of the marshalled object
\* with the outer braces removed ("m" stands for one "name": value member)
Fragments == {<<>>, <<"m">>}

\* lists of at most n rule results
FragmentLists(n) == UNION {[1..k -> Fragments] : k \in 0..n}

\* addScrapedDataToDocument(scrapedDataDoc, newScrapedData)
AddScrapedDataToDocument(doc, new) ==
    IF doc = <<>> THEN new ELSE doc \o <<",">> \o new

\* the loop of executeScrapingRulesInRuleset and
\* executeScrapingRulesInRuleGroup over the results of the rules
RECURSIVE ScrapedDataOfRules(_, _)
ScrapedDataOfRules(frags, doc) ==
    IF frags = <<>> THEN doc
    ELSE ScrapedDataOfRules(Tail(frags), AddScrapedDataToDocument(doc, Head(frags)))

\* executeRulesInExecutionPlan(epi, wd, ctx)
RECURSIVE ExecuteRulesInExecutionPlan(_, _)
ExecuteRulesInExecutionPlan(frags, doc) ==
    IF frags = <<>> THEN doc
    ELSE ExecuteRulesInExecutionPlan(Tail(frags), doc \o Head(frags))

\* runDefaultScrapingRules(wd, ctx) over the plan entries whose
\* pre-conditions hold
RECURSIVE RunDefaultScrapingRules(_, _)
RunDefaultScrapingRules(plan, doc) ==
    IF plan = <<>> THEN doc
    ELSE RunDefaultScrapingRules(Tail(plan),
             AddScrapedDataToDocument(doc,
                 ExecuteRulesInExecutionPlan(Head(plan), <<>>)))

\* executeScrapingRulesByURL(wd, ctx, url); rg and rs are the results of the
\* rules of the rule group and of the ruleset found for the URL, in a
\* one-element sequence, or the empty sequence when none is found
ExecuteScrapingRulesByURL(rg, rs) ==
    LET data == IF rg = <<>> THEN <<>> ELSE ScrapedDataOfRules(rg[1], <<>>)
        doc == IF data # <<>> THEN AddScrapedDataToDocument(<<>>, data) ELSE <<>>
    IN  IF rs = <<>> THEN doc
        ELSE AddScrapedDataToDocument(doc, ScrapedDataOfRules(rs[1], <<>>))

\* processScrapingRules(wd, ctx, url); plan is the default execution plan in
\* a one-element sequence when the source configuration asks for it
ProcessScrapingRules(plan, rg, rs) ==
    LET doc == IF plan = <<>> THEN <<>>
               ELSE AddScrapedDataToDocument(<<>>,
                        RunDefaultScrapingRules(plan[1], <<>>))
    IN  /\ call = <<>>
        /\ call' = <<"processScrapingRules", plan, rg, rs>>
        /\ result' = <<<<"{">> \o AddScrapedDataToDocument(doc,
                                     ExecuteScrapingRulesByURL(rg, rs))
                              \o <<"}">>>>
        /\ UNCHANGED outsideFunctions

\* host names, as sequences of labels, and paths, as sequences of segments
Hosts == {<<"a", "test">>, <<"www", "a", "test">>, <<"other", "test">>, <<"test">>}
Paths == {<<>>, <<"p">>}

\* the URL of a source: http://host/path
SourceURLs == [form : {"absolute"}, host : Hosts, path : Paths]

\* the strings extractLinks hands over: http://host/path, host/path
\* (no scheme), //host/path (protocol-relative) and /path
LinkURLs ==
    [form : {"absolute", "schemeless", "protocolRelative"}, host : Hosts, path : Paths]
        \cup [form : {"rooted"}, host : {<<>>}, path : Paths]

\* strings.HasPrefix(url, "/")
HasSlashPrefix(u) == u.form \in {"protocolRelative", "rooted"}

\* url.Parse(u): a string without "://" has no host, all of it is path
ParseURL(u) ==
    IF u.form = "absolute"
    THEN [scheme |-> "http", host |-> u.host, path |-> u.path]
    ELSE [scheme |-> "", host |-> <<>>, path |-> u.host \o u.path]

\* combineURLs(baseURL, relativeURL): scheme://host of the base followed by
\* the relative string as it is
CombineURLs(base, rel) ==
    IF HasSlashPrefix(rel)
    THEN [form |-> "absolute", host |-> base.host,
          path |-> IF rel.form = "protocolRelative"
                   THEN <<"">> \o rel.host \o rel.path ELSE rel.path]
    ELSE rel

\* getDomainParts(parts, level)
GetDomainParts(parts, level) ==
    LET partCount == Len(parts)
    IN  CASE level = 1 /\ partCount >= 3 -> SubSeq(parts, partCount - 2, partCount)
          [] level = 2 /\ partCount >= 2 -> SubSeq(parts, partCount - 1, partCount)
          [] level = 3 /\ partCount >= 1 -> SubSeq(parts, partCount, partCount)
          [] OTHER -> parts

\* isExternalLink(sourceURL, linkURL, domainLevel)
IsExternalLink(sourceURL, linkURL, domainLevel) ==
    LET sourceParsed == ParseURL(sourceURL)
        linkParsed == ParseURL(linkURL)
        \* strings.Split(Hostname(), "."): one empty part for an empty host
        Split(h) == IF h = <<>> THEN <<"">> ELSE h
    IN  IF domainLevel = 4 THEN FALSE
        ELSE IF HasSlashPrefix(linkURL) THEN FALSE
        ELSE IF domainLevel = 0 THEN sourceParsed # linkParsed
        ELSE GetDomainParts(Split(sourceParsed.host), domainLevel)
                 # GetDomainParts(Split(linkParsed.host), domainLevel)

\* skipURL(processCtx, id, url) for a non-empty url
SkipURL(sourceURL, restricted, url) ==
    LET combined == IF HasSlashPrefix(url) THEN CombineURLs(sourceURL, url) ELSE url
    IN  restricted # 4 /\ IsExternalLink(sourceURL, combined, restricted)

\* a worker decides whether the URL it took from the jobs is in scope
WorkerSkipURL(sourceURL, restricted, url) ==
    /\ call = <<>>
    /\ call' = <<"skipURL", sourceURL, restricted, url>>
    /\ result' = <<SkipURL(sourceURL, restricted, url)>>
    /\ UNCHANGED outsideFunctions

\* one pass of the loop of worker: skipURL works on its own copy of url,
\* processJob gets the url as it came from the jobs channel and passes it
\* to getURLContent and to indexPage. The result is whether the URL is
\* skipped and, if not, the URL fetched and the URL indexed.
WorkerJob(sourceURL, restricted, url) ==
    /\ call = <<>>
    /\ call' = <<"worker", sourceURL, restricted, url>>
    /\ result' = IF SkipURL(sourceURL, restricted, url) THEN <<TRUE>>
                 ELSE <<FALSE, url, url>>
    /\ UNCHANGED outsideFunctions

\* the switch of processContext.TakeScreenshot: config.Crawler.SourceScreenshot
\* for the URL of the source, config.Crawler.FullSiteScreenshot for any other
TakeScreenshotEnabled(isSourceURL, sourceScreenshot, fullSiteScreenshot) ==
    IF isSourceURL THEN sourceScreenshot ELSE fullSiteScreenshot

\* snapshot_url of the row of url after processContext.TakeScreenshot ("" is
\* the default, "old.png" the name left by an earlier session, "new.png" the
\* imageName of this call): when
\* enabled, TakeScreenshot(&wd, imageName) is called and its error logged,
\* then UPDATE SearchIndex SET snapshot_url = imageName WHERE page_url = url
\* is executed; it changes the row if there is one and Exec does not fail
SnapshotURLAfter(takeScreenshot, rowExists, shotErr, execErr, old) ==
    IF takeScreenshot /\ rowExists /\ ~execErr THEN "new.png" ELSE old

\* CrawlWebsite after a successful fetch of the seed: CrawlInitialURL has
\* called IndexPage (rowExists: the upsert was committed or a row was there
\* before), then processCtx.TakeScreenshot(pageSource, source.URL). The
\* result is the snapshot_url of the row, "" when there is no row.
SeedScreenshot(sourceScreenshot, rowExists, shotErr, execErr, old) ==
    /\ call = <<>>
    /\ call' = <<"TakeScreenshot", sourceScreenshot, rowExists, shotErr,
                 execErr, old>>
    /\ result' = <<SnapshotURLAfter(
                       TakeScreenshotEnabled(TRUE, sourceScreenshot, FALSE),
                       rowExists, shotErr, execErr, old)>>
    /\ UNCHANGED outsideFunctions

NextFunctions ==
    \/ \E c \in RuleConditions, p \in PageAnswers : RuleApplies(c, p)
    \/ \E sourceScreenshot, rowExists, shotErr, execErr \in BOOLEAN :
          \E old \in IF rowExists THEN {"", "old.png"} ELSE {""} :
              SeedScreenshot(sourceScreenshot, rowExists, shotErr, execErr, old)
    \/ \E sourceURL \in SourceURLs, restricted \in 0..4, url \in LinkURLs :
          WorkerJob(sourceURL, restricted, url)
    \/ \E n \in 0..MaxWaitConditions, c \in RuleConditions, p \in PageAnswers :
          \E waitErrs \in [1..n -> BOOLEAN] :
              ExecuteGuardedActionRule(waitErrs, c, p)
    \/ \E sourceURL \in SourceURLs, restricted \in 0..4, url \in LinkURLs :
          WorkerSkipURL(sourceURL, restricted, url)
    \/ \E n \in 0..MaxPlanItems, g, r \in 0..1 :
          \E items \in [1..n -> FragmentLists(MaxFragments)],
             rg \in [1..g -> FragmentLists(MaxFragments)],
             rs \in [1..r -> FragmentLists(MaxFragments)] :
              \E plan \in {<<>>, <<items>>} :
                  ProcessScrapingRules(plan, rg, rs)
    \/ \E n \in 0..MaxSelectors : \E selectors \in [1..n -> Selectors] :
          FindElement(selectors)
    \/ \E n \in 0..MaxPatterns, url \in Strings(MaxURLLen) :
          \E patterns \in [1..n -> Strings(MaxPatternLen)] :
              CheckPreConditions(patterns, url)
    \/ FunctionReturn

InitFunctions == InitCrawl

SpecFunctions == InitFunctions /\ [][NextFunctions]_vars

\* ------------------------------------- the expansion loop and its workers
\* One Crawl Session from the extraction of the initial links on. The
\* source has scope 4, so skipURL lets every URL through. The workers of a
\* level are goroutines that share processCtx, its WebDriver included.
outsideLevel == <<src, lockedBy, now, nticks, claimVars, orphanVars, dispVars,
                  crawlVars, indexVars, rulesVars, call, result, maintVars,
                  shutVars>>

\* the links of the pages of the site
SiteLinks == {"/a", "/b"}

\* what extractLinks returns: at most n links, in page order
LinkLists(n) == UNION {[1..k -> SiteLinks] : k \in 0..n}

\* allLinks := initialLinks, maxDepth := config.Crawler.MaxDepth (1 when it
\* is 0), newLinksFound := len(initialLinks); config.Crawler.Workers is
\* the number of workers of every level
CrawlWebsiteLoopInit(maxDepthConf, workers, initialLinks) ==
    /\ cw.pc = "none"
    /\ configMaxDepth' = maxDepthConf
    /\ cw' = [cw EXCEPT !.pc = "loop",
                        !.maxDepth = IF maxDepthConf = 0 THEN 1 ELSE maxDepthConf,
                        !.workers = workers,
                        !.allLinks = initialLinks,
                        !.newLinksFound = Len(initialLinks)]
    /\ UNCHANGED <<processCtx, wk, pagesIndexed, errorLog>>
    /\ UNCHANGED outsideLevel

\* the loop condition (currentDepth < maxDepth) && (newLinksFound > 0)
LoopCondition(c) == c.currentDepth < c.maxDepth /\ c.newLinksFound > 0

\* make(chan string, len(allLinks)): the capacity of the jobs channel
JobsCapacity(c) == Len(c.allLinks)

\* a level starts: the jobs channel is made, the workers are launched,
\* every link of allLinks is sent to the channel, which has room for all
\* of them, and the channel is closed
LevelStart ==
    /\ cw.pc = "loop"
    /\ LoopCondition(cw)
    /\ Len(cw.allLinks) <= JobsCapacity(cw)
    /\ cw' = [cw EXCEPT !.pc = "workers", !.jobs = cw.allLinks,
                        !.received = <<>>]
    /\ UNCHANGED <<configMaxDepth, processCtx, wk, pagesIndexed, errorLog>>
    /\ UNCHANGED outsideLevel

\* the jobs channel after a worker has received its first value
AfterReceive_Kept(jobs) == jobs
AfterReceive(jobs) == Tail(jobs)

\* for url := range jobs, skipURL(url) being false
WorkerTakeJob(w) ==
    /\ cw.pc = "workers"
    /\ w <= cw.workers
    /\ wk[w].pc = "idle"
    /\ cw.jobs # <<>>
    /\ wk' = [wk EXCEPT ![w].pc = "get", ![w].url = Head(cw.jobs)]
    /\ cw' = [cw EXCEPT !.jobs = AfterReceive(@),
                        !.received = Append(@, Head(cw.jobs))]
    /\ UNCHANGED <<configMaxDepth, processCtx, pagesIndexed, errorLog>>
    /\ UNCHANGED outsideLevel

\* what an error of getURLContent does to CrawlWebsite: processJob logs it
\* and returns
AfterFetchError_Abort(c) == [c EXCEPT !.pc = "done", !.reported = Append(@, "error")]
AfterFetchError(c) == c

\* getURLContent: wd.Get(url) on the WebDriver of processCtx, then the pause
GetURLContent(w, ok) ==
    /\ wk[w].pc = "get"
    /\ IF ok
       THEN /\ processCtx' = [processCtx EXCEPT !.wd = wk[w].url]
            /\ wk' = [wk EXCEPT ![w].pc = "read"]
            /\ UNCHANGED <<cw, errorLog>>
       ELSE /\ errorLog' = errorLog \cup {wk[w].url}
            /\ wk' = [wk EXCEPT ![w].pc = "idle", ![w].url = ""]
            /\ cw' = AfterFetchError(cw)
            /\ UNCHANGED processCtx
    /\ UNCHANGED <<configMaxDepth, pagesIndexed>>
    /\ UNCHANGED outsideLevel

\* links extracted by the workers and not yet appended to newLinks
RECURSIVE PendingLinks(_)
PendingLinks(n) ==
    IF n = 0 THEN 0 ELSE Len(wk[n].links) + PendingLinks(n - 1)

\* the pages of a level together hold at most MaxLinks links
LinksRoom == MaxLinks - Len(processCtx.newLinks) - PendingLinks(NumWorkers)

\* processJob after getURLContent: extractPageInfo reads the page the
\* browser shows, indexPage stores it under url, extractLinks gives the
\* links of the page
ProcessJob(w, extractedLinks) ==
    /\ wk[w].pc = "read"
    /\ pagesIndexed' = {[url |-> wk[w].url, content |-> processCtx.wd]}
    /\ wk' = [wk EXCEPT ![w].pc = IF extractedLinks = <<>> THEN "idle" ELSE "lock",
                        ![w].url = "",
                        ![w].links = extractedLinks]
    /\ UNCHANGED <<configMaxDepth, cw, processCtx, errorLog>>
    /\ UNCHANGED outsideLevel

\* linksMutex.Lock() and the append to newLinks
AppendNewLinks(w) ==
    /\ wk[w].pc = "lock"
    /\ processCtx.linksMutex = 0
    /\ processCtx' = [processCtx EXCEPT !.linksMutex = w,
                                        !.newLinks = @ \o wk[w].links]
    /\ wk' = [wk EXCEPT ![w].pc = "unlock", ![w].links = <<>>]
    /\ UNCHANGED <<configMaxDepth, cw, pagesIndexed, errorLog>>
    /\ UNCHANGED outsideLevel

\* linksMutex.Unlock(); processJob returns
LinksUnlock(w) ==
    /\ wk[w].pc = "unlock"
    /\ processCtx' = [processCtx EXCEPT !.linksMutex = 0]
    /\ wk' = [wk EXCEPT ![w].pc = "idle"]
    /\ UNCHANGED <<configMaxDepth, cw, pagesIndexed, errorLog>>
    /\ UNCHANGED outsideLevel

\* maxDepth after currentDepth++: moved on when no depth is configured
NextMaxDepth_Fixed(c) == c.maxDepth
NextMaxDepth(c) ==
    IF configMaxDepth = 0 THEN c.currentDepth + 1 ELSE c.maxDepth

\* wg.Wait() returns: the channel is closed and drained and every worker
\* has left its loop
WorkersDone_Drained == cw.pc = "workers" /\ cw.jobs = <<>>
WorkersDone ==
    /\ cw.pc = "workers"
    /\ cw.jobs = <<>>
    /\ \A w \in Workers : wk[w].pc = "idle"

\* after wg.Wait(): under linksMutex the new links become the next level
\* and newLinks is reset; currentDepth++. With no depth configured the
\* counter is followed up to MaxLevels (maxDepth stays one ahead of it, so
\* the loop condition does not depend on its value).
LevelEnd ==
    /\ WorkersDone
    /\ processCtx.linksMutex = 0
    /\ LET found == Len(processCtx.newLinks)
           c == [cw EXCEPT !.newLinksFound = found,
                           !.allLinks = IF found > 0 THEN processCtx.newLinks ELSE @,
                           !.currentDepth =
                               IF configMaxDepth = 0 /\ @ = MaxLevels THEN @ ELSE @ + 1]
       IN  cw' = [c EXCEPT !.pc = "loop", !.maxDepth = NextMaxDepth(c)]
    /\ processCtx' = [processCtx EXCEPT !.newLinks = <<>>]
    /\ UNCHANGED <<configMaxDepth, wk, pagesIndexed, errorLog>>
    /\ UNCHANGED outsideLevel

\* the loop is left: the instance goes back to the channel and
\* updateSourceState(db, source.URL, nil) reports the crawl as completed
CrawlWebsiteLoopExit ==
    /\ cw.pc = "loop"
    /\ ~LoopCondition(cw)
    /\ cw' = [cw EXCEPT !.pc = "done", !.reported = Append(@, "completed")]
    /\ UNCHANGED <<configMaxDepth, processCtx, wk, pagesIndexed, errorLog>>
    /\ UNCHANGED outsideLevel

\* the steps of a level that do not depend on the pages
LevelSteps ==
    \/ LevelStart
    \/ \E w \in Workers : WorkerTakeJob(w)
    \/ \E w \in Workers, ok \in BOOLEAN : GetURLContent(w, ok)
    \/ \E w \in Workers : AppendNewLinks(w)
    \/ \E w \in Workers : LinksUnlock(w)
    \/ LevelEnd
    \/ CrawlWebsiteLoopExit

NextLevel ==
    \/ \E maxDepthConf \in 0..MaxDepth, workers \in Workers,
          initialLinks \in LinkLists(MaxLinks) :
          CrawlWebsiteLoopInit(maxDepthConf, workers, initialLinks)
    \/ \E w \in Workers : \E extractedLinks \in LinkLists(LinksRoom) :
          ProcessJob(w, extractedLinks)
    \/ LevelSteps

InitLevel == InitCrawl

SpecLevel == InitLevel /\ [][NextLevel]_vars

\* a site of two pages that link to each other, the page of the source
\* linking to both or to one of them
SitePages == [p \in SiteLinks |-> IF p = "/a" THEN <<"/b">> ELSE <<"/a">>]

\* a crawl of that site with no depth configured
NextSite ==
    \/ \E workers \in Workers, initialLinks \in LinkLists(MaxLinks) :
          CrawlWebsiteLoopInit(0, workers, initialLinks)
    \/ \E w \in Workers : ProcessJob(w, SitePages[processCtx.wd])
    \/ LevelSteps

\* the goroutines of a session run on: a step that can be taken is taken
FairLevel == InitLevel /\ [][NextSite]_vars /\ WF_vars(NextSite)

\* ------------------------------------------- the maintenance of the loop
\* checkSources with the clock, in minutes since the dispatcher started.
outsideMaintenance == <<src, lockedBy, now, nticks, claimVars, orphanVars,
                        dispVars, crawlVars, indexVars, rulesVars, call,
                        result, levelVars, shutVars>>

\* sleepTime = 1 * time.Minute
sleepTime == 1

\* the 24 * time.Hour added to time.Now() for maintenanceTime
MaintenanceInterval == 24 * 60

\* minutes the CrawlWebsite calls of one iteration may take
CrawlMinutes == {1, 60}

\* checkSources starts: maintenanceTime := time.Now().Add(24 * time.Hour)
CheckSourcesStart ==
    /\ mpc = "off"
    /\ mpc' = "loop"
    /\ maintenanceTime' = clock + MaintenanceInterval
    /\ UNCHANGED <<clock, maintenanceLog>>
    /\ UNCHANGED outsideMaintenance

\* an iteration whose query fails: the error is logged, the loop sleeps
MaintenanceQueryError ==
    /\ mpc = "loop"
    /\ clock + sleepTime <= MaxClock
    /\ clock' = clock + sleepTime
    /\ UNCHANGED <<mpc, maintenanceTime, maintenanceLog>>
    /\ UNCHANGED outsideMaintenance

\* an iteration whose query returns no source: performDBMaintenance runs
\* if time.Now().After(maintenanceTime), its result err is logged, and
\* the loop sleeps
MaintenanceNoSources(err) ==
    /\ mpc = "loop"
    /\ clock + sleepTime <= MaxClock
    /\ maintenanceLog' =
           IF clock > maintenanceTime
           THEN Append(maintenanceLog, [at |-> clock, sources |-> 0, err |-> err])
           ELSE maintenanceLog
    /\ clock' = clock + sleepTime
    /\ UNCHANGED <<mpc, maintenanceTime>>
    /\ UNCHANGED outsideMaintenance

\* an iteration whose query returns sources: each is crawled
MaintenanceCrawl(minutes) ==
    /\ mpc = "loop"
    /\ clock + minutes <= MaxClock
    /\ clock' = clock + minutes
    /\ UNCHANGED <<mpc, maintenanceTime, maintenanceLog>>
    /\ UNCHANGED outsideMaintenance

NextMaintenance ==
    \/ CheckSourcesStart
    \/ MaintenanceQueryError
    \/ \E err \in BOOLEAN : MaintenanceNoSources(err)
    \/ \E minutes \in CrawlMinutes : MaintenanceCrawl(minutes)

InitMaintenance == InitCrawl

SpecMaintenance == InitMaintenance /\ [][NextMaintenance]_vars

\* ------------------------------------------------ the shutdown of main
\* main with its two goroutines: the signal handler and checkSources, which
\* runs the Crawl Sessions one after the other on the WebDriver of main.
outsideShutdown == <<src, lockedBy, now, nticks, claimVars, orphanVars,
                     dispVars, crawlVars, indexVars, rulesVars, call,
                     result, levelVars, maintVars>>

\* main up to select {}: sql.Open and db.Ping, StartSelenium and
\* ConnectSelenium succeeded, signal.Notify, the two goroutines started
MainStart ==
    /\ proc.pc = "off"
    /\ proc' = [proc EXCEPT !.pc = "running", !.db = "open", !.wd = "open"]
    /\ UNCHANGED outsideShutdown

\* checkSources hands a source to CrawlWebsite(db, source, wd)
CheckSourcesCrawlWebsite ==
    /\ proc.pc = "running"
    /\ proc.session = "none"
    /\ proc.crawls < MaxCrawls
    /\ proc' = [proc EXCEPT !.session = "crawl", !.crawls = @ + 1,
                            !.driverCalls = 0, !.err = FALSE]
    /\ UNCHANGED outsideShutdown

\* a call of the session on the WebDriver: on a WebDriver that has been
\* quit it returns an error and the session goes to report it; the session
\* is through after MaxDriverCalls calls
SessionDriverCall ==
    /\ proc.pc = "running"
    /\ proc.session = "crawl"
    /\ proc' = IF proc.wd = "closed"
               THEN [proc EXCEPT !.session = "report", !.err = TRUE]
               ELSE IF proc.driverCalls + 1 = MaxDriverCalls
                    THEN [proc EXCEPT !.session = "report",
                                      !.driverCalls = @ + 1]
                    ELSE [proc EXCEPT !.driverCalls = @ + 1]
    /\ UNCHANGED outsideShutdown

\* updateSourceState at the end of the session: the status is written, or
\* the write is attempted on the closed connection and its error logged
SessionUpdateSourceState ==
    /\ proc.pc = "running"
    /\ proc.session = "report"
    /\ proc' = [proc EXCEPT
                   !.session = "none",
                   !.inFlight = FALSE,
                   !.statuses = Append(@,
                       [status |-> IF proc.err THEN "error" ELSE "completed",
                        stored |-> proc.db = "open",
                        inFlight |-> proc.inFlight])]
    /\ UNCHANGED outsideShutdown

\* sig := <-signals
SignalReceived ==
    /\ proc.pc = "running"
    /\ proc.sig = "wait"
    /\ proc' = [proc EXCEPT !.sig = "closeResources"]
    /\ UNCHANGED outsideShutdown

\* closeResources: db.Close()
CloseResourcesDb ==
    /\ proc.pc = "running"
    /\ proc.sig = "closeResources"
    /\ proc' = [proc EXCEPT !.sig = "quit", !.db = "closed"]
    /\ UNCHANGED outsideShutdown

\* closeResources: wd.Quit(); inFlight records that a session was running
\* on the WebDriver at that moment
CloseResourcesWd ==
    /\ proc.pc = "running"
    /\ proc.sig = "quit"
    /\ proc' = [proc EXCEPT !.sig = "exit", !.wd = "closed",
                            !.inFlight = proc.session # "none"]
    /\ UNCHANGED outsideShutdown

\* os.Exit(0) in the signal goroutine: the process ends at once, whatever
\* the other goroutines are doing
OsExit ==
    /\ proc.pc = "running"
    /\ proc.sig = "exit"
    /\ proc' = [proc EXCEPT !.pc = "exited"]
    /\ UNCHANGED outsideShutdown

NextShutdown ==
    \/ MainStart
    \/ CheckSourcesCrawlWebsite
    \/ SessionDriverCall
    \/ SessionUpdateSourceState
    \/ SignalReceived
    \/ CloseResourcesDb
    \/ CloseResourcesWd
    \/ OsExit

InitShutdown == InitCrawl

SpecShutdown == InitShutdown /\ [][NextShutdown]_vars

\* sources a dispatcher has obtained from the catalog and not yet released
ObtainedBy(d) ==
    {sourcesToCrawl[d][k] : k \in 1..Len(sourcesToCrawl[d])} \cup
    ({crawling[d]} \ {None})

\* a call of dispatcher d commits a non-empty result in this step
ClaimCommits(d) == pc[d] = "scan" /\ pc'[d] = "crawl"

\* C1: no source is obtained by (or being crawled by) two dispatchers at the
\* same time.
C1_OneHolder ==
    \A d1, d2 \in Dispatchers :
        d1 # d2 => ObtainedBy(d1) \cap ObtainedBy(d2) = {}

\* C2: two concurrent ClaimBatch(2) calls on a catalog with exactly 3
\* eligible sources return disjoint sets that together hold all 3 sources,
\* and all 3 are 'processing' once both calls have committed.
C2_ConcurrentClaimsPartition ==
    \A d1, d2 \in Dispatchers :
        ( /\ d1 # d2
          /\ pc[d1] = "crawl" /\ pc[d2] = "crawl"
          /\ limit[d1] = 2 /\ limit[d2] = 2
          /\ Cardinality(snap[d1]) = 3 /\ snap[d2] = snap[d1]
          /\ \A d3 \in Dispatchers \ {d1, d2} : held[d3] = {} )
        => /\ held[d1] \cap held[d2] = {}
           /\ held[d1] \cup held[d2] = snap[d1]
           /\ \A s \in snap[d1] : src[s].status = "processing"

C2_Witness ==
    \E d1, d2 \in Dispatchers :
        /\ d1 # d2
        /\ pc[d1] = "crawl" /\ pc[d2] = "crawl"
        /\ limit[d1] = 2 /\ limit[d2] = 2
        /\ Cardinality(snap[d1]) = 3 /\ snap[d2] = snap[d1]
        /\ Cardinality(held[d1]) = 2 /\ Cardinality(held[d2]) = 1

C4_OldestFirst ==
    [][ \A d \in Dispatchers :
          ClaimCommits(d) =>
            \A c \in held'[d], u \in snap[d] \ held'[d] :
                 ( /\ Eligible(src[u], now)
                   /\ lockedBy[u] = None
                   /\ src[u].last_updated_at # NULL_TS
                   /\ src[c].last_updated_at # NULL_TS )
                 => src[c].last_updated_at <= src[u].last_updated_at ]_vars

\* C5: a source left 'processing' by a dispatcher that died is eventually
\* returned by a later ClaimBatch call: whenever there are such sources,
\* eventually there are none, and a source stops being one only in a step
\* in which a ClaimBatch call of a live dispatcher returns it.
C5_OrphanReclaimed ==
    /\ (orphans # {}) ~> (orphans = {})
    /\ [][ \A s \in orphans \ orphans' :
             \E d \in Dispatchers :
                 pc[d] = "idle" /\ pc'[d] = "crawl" /\ s \in held'[d] ]_vars

C5_Witness ==
    \E s \in reclaimed, d, e \in Dispatchers :
        pc[d] = "dead" /\ pc[e] = "crawl" /\ s \in held[e]

\* C6: a Release that writes the row leaves, on success, status 'completed',
\* last_crawled_at = now and no last_error, and on failure status 'error',
\* the error message in last_error and last_error_at = now.
C6_ReleaseOutcome ==
    [][ \A d \in Dispatchers, s \in LifeSources :
          ( /\ s \in held[d] /\ s \notin held'[d]
            /\ pc[d] = "crawl" /\ pc'[d] # "dead"
            /\ src'[s] # src[s] ) =>
             \/ /\ src'[s].status = "completed"
                /\ src'[s].last_crawled_at = now
                /\ src'[s].last_error = NULL_TXT
             \/ /\ src'[s].status = "error"
                /\ src'[s].last_error \in CrawlErrors
                /\ src'[s].last_error_at = now ]_vars

\* C7: when a Crawl Session has returned, the status of its source is
\* 'completed' or 'error'.
C7_OutcomeReported ==
    \A i \in Sessions :
        spc[i] = "done" => src[SessionSource(i)].status \in {"completed", "error"}

\* C8: once a Crawl Session has reported an error for its source, it no
\* longer crawls and reports nothing more: all it does is return.
C8_ErroredIsTerminal ==
    [][ \A i \in Sessions :
          (\E k \in 1..Len(reports[i]) : reports[i][k] = "error") =>
             /\ depth'[i] <= depth[i]
             /\ reports'[i] = reports[i]
             /\ spc'[i] \in {spc[i], "done"} ]_vars

C8_Witness ==
    \E i, j \in Sessions :
        /\ spc[i] = "done" /\ reports[i] = <<"error">>
        /\ spc[j] = "quit" /\ reports[j] = <<"completed">> /\ depth[j] > 0

\* C9: a Crawl Session sends its browser instance to the pool channel at
\* most once, and exactly once by the time it has returned; the channel
\* never holds an instance twice.
C9_InstanceReturnedOnce ==
    /\ \A i \in Sessions :
         /\ sent[i] <= 1
         /\ spc[i] \in {"quit", "done"} => sent[i] = 1
    /\ \A k, l \in 1..Len(chan) : k # l => chan[k] # chan[l]

C9_Witness ==
    \E i, j \in Sessions :
        /\ spc[i] = "done" /\ reports[i] = <<"error">> /\ sent[i] = 1
        /\ spc[j] = "done" /\ reports[j] = <<"completed">> /\ sent[j] = 1
        /\ Len(chan) = 2

\* C10: at most one execution of indexPage is between acquiring and
\* releasing indexPageMutex.
C10_IndexerGate == Cardinality(InsideIndexPage) <= 1

C10_Witness ==
    \E w1, w2 \in Workers :
        /\ ipc[w1] = "commitTransaction" /\ indexPageMutex = w1
        /\ ipc[w2] = "Lock"
        /\ tx[w1].searchIndex # {}

\* C11: indexPage releases indexPageMutex on every exit path (failed
\* connection check, failed Begin, failed insert, failed commit, success):
\* a mutex that is held always becomes free again, and a worker that is
\* not inside indexPage never holds it.
C11_GateReleased ==
    /\ (indexPageMutex # None) ~> (indexPageMutex = None)
    /\ [](\A w \in Workers : indexPageMutex = w => w \in InsideIndexPage)

\* a call has failed after it had committed a keyword, and a later call
\* of another worker is inside indexPage
C11_Witness ==
    \E w1, w2 \in Workers :
        /\ w1 # w2
        /\ ipc[w1] = "idle"
        /\ indexPageMutex = w2 /\ ipc[w2] = "Begin"
        /\ searchIndex = {} /\ keywords # {}

\* C12: a call of indexPage in which a step fails leaves the committed
\* SearchIndex, SourceSearchIndex, MetaTags, Keywords and KeywordIndex
\* exactly as they were before the call.
C12_AllOrNothing ==
    \A w \in Workers : ipc[w] = "failed" => Tables = before[w]

\* the call of worker w commits in this step
IndexCommits(w) == ipc[w] = "commitTransaction" /\ ipc'[w] = "return"

\* C13: SearchIndex holds one row per page_url; a row keeps its index_id
\* whatever is indexed later; a call that succeeds leaves the row of its
\* page_url with the content it was given.
C13_OneRowPerURL ==
    [][ /\ \A r1, r2 \in searchIndex' :
              r1.page_url = r2.page_url => r1 = r2
        /\ \A r \in searchIndex :
              \E r2 \in searchIndex' :
                  r2.page_url = r.page_url /\ r2.index_id = r.index_id
        /\ \A w \in Workers :
              IndexCommits(w) =>
                  \E r \in searchIndex' :
                      /\ r.page_url = page[w]
                      /\ r.content = pageInfo[w].BodyText ]_vars

\* a page indexed with "v1" under index_id 1 has been indexed again with
\* "v2"
C13_Witness ==
    \E w \in Workers, url \in Pages :
        /\ ipc[w] = "return" /\ page[w] = url
        /\ [index_id |-> 1, page_url |-> url, content |-> "v1"]
               \in before[w].searchIndex
        /\ [index_id |-> 1, page_url |-> url, content |-> "v2"]
               \in searchIndex

\* C14: Keywords holds one row per keyword text; a row keeps its
\* keyword_id; KeywordIndex rows stay; a call that succeeds leaves at
\* least one KeywordIndex row for each of its keywords and its page.
C14_KeywordDictionary ==
    [][ /\ \A k1, k2 \in keywords' :
              k1.keyword = k2.keyword => k1 = k2
        /\ keywords \subseteq keywords'
        /\ keywordIndex \sqsubseteq keywordIndex'
        /\ \A w \in Workers :
              IndexCommits(w) =>
                  \A i \in 1..Len(pageInfo[w].keywords) :
                      \E k \in keywords' :
                          /\ k.keyword = pageInfo[w].keywords[i]
                          /\ CopiesIn(<<k.keyword_id, indexID[w]>>,
                                      keywordIndex') >= 1 ]_vars

\* 'hello' got keyword_id 1 when the first page was indexed; a second page
\* with 'hello' and 'world' has been indexed: 'hello' is still 1, 'world'
\* is new, both have a KeywordIndex row for the second page
C14_Witness ==
    \E w \in Workers :
        /\ ipc[w] = "return" /\ indexID[w] = 2
        /\ before[w].keywords = {[keyword_id |-> 1, keyword |-> "hello"]}
        /\ [keyword_id |-> 1, keyword |-> "hello"] \in keywords
        /\ \E k \in keywords :
               /\ k.keyword = "world"
               /\ CopiesIn(<<k.keyword_id, 2>>, keywordIndex) = 1
        /\ CopiesIn(<<1, 2>>, keywordIndex) = 1
        /\ Cardinality(keywords) = 2

\* the MetaTags rows of an index_id, as a bag of (name, content)
MetaTagsOf(M, id) ==
    [t \in {<<r[2], r[3]>> : r \in {q \in BagToSet(M) : q[1] = id}}
        |-> M[<<id, t[1], t[2]>>]]

\* C15: after a call that succeeds, the MetaTags rows of its index_id are
\* exactly the (name, content) pairs of the pageInfo it was given.
C15_MetaTagsReplaced ==
    [][ \A w \in Workers :
          IndexCommits(w) =>
              MetaTagsOf(metaTags', indexID[w]) =
                  SetToBag(pageInfo[w].MetaTags) ]_vars

\* C16: insertKeywordWithRetries runs the upsert at most 3 times: after a
\* deadlock on the first or second attempt it tries again, after a deadlock
\* on the third it returns the error, after any other error it returns at
\* once, and at the first success it returns the keyword_id.
C16_KeywordRetries ==
    [][ \A w \in Workers :
          /\ Len(kwErr'[w]) <= 3
          /\ Len(kwErr'[w]) = Len(kwErr[w]) + 1 =>
               LET n == Len(kwErr'[w])
                   out == kwErr'[w][n]
               IN  /\ out = "deadlock" /\ n < 3 =>
                         /\ ipc'[w] = "QueryRow"
                         /\ attempt'[w] = n
                   /\ out = "deadlock" /\ n = 3 => ipc'[w] = "failed"
                   /\ out = "error" => ipc'[w] = "failed"
                   /\ out = "ok" =>
                         /\ ipc'[w] = "KeywordIndex"
                         /\ [keyword_id |-> keywordID'[w],
                             keyword |-> pageInfo[w].keywords[kwPos[w]]]
                                \in keywords' ]_vars

\* the third attempt has run after two deadlocks
C16_Witness ==
    \E w \in Workers :
        /\ kwErr[w] = <<"deadlock", "deadlock", "ok">>
        /\ ipc[w] = "KeywordIndex"

\* the handling of the current action rule (executeRule, or the body of
\* executeActionRuleByName) ends in this step
RuleHandled ==
    /\ fn \in {"executeActionRules", "executeActionRuleByName"}
    /\ rpc \in {"exec", "retry"}
    /\ rpc' \notin {"exec", "retry"}

\* an execution of a rule happens in this step
RuleExecuted == Len(outs') = Len(outs) + 1

\* C17: a click rule whose selectors find no element, with retry_count 2
\* and ignore false, is executed 3 times in all before executeActionRules
\* goes on with the next rule.
C17_MissingClickRetried ==
    [][ /\ RuleHandled
        /\ fn = "executeActionRules"
        /\ rule.ActionType = "click" /\ ~rule.found
        /\ rule.RetryCount = 2 /\ ~rule.Ignore
        => /\ Len(outs') = 3
           /\ rpc' = "next" ]_vars

\* C18: a rule whose execution fails is executed once if ignore is true;
\* if ignore is false it is executed again at most retry_count times, the
\* first success ends the retries, and it has been executed 1 + retry_count
\* times when every execution failed. This holds for executeRule and for
\* executeActionRuleByName.
C18_RetryPolicy ==
    [][ RuleHandled =>
          LET o == outs'
              n == Len(outs')
          IN  /\ n >= 1
              /\ \A k \in 1..(n - 1) : o[k] # "nil"
              /\ rule.Ignore => n = 1
              /\ n <= 1 + rule.RetryCount
              /\ ~rule.Ignore /\ o[n] # "nil" => n = 1 + rule.RetryCount ]_vars

\* executeActionRuleByName has executed a rule with retry_count 2 three
\* times: two failures, then a success
C18_Witness ==
    /\ fn = "executeActionRuleByName" /\ rpc = "returned"
    /\ rule.RetryCount = 2 /\ ~rule.Ignore
    /\ outs = <<"error", "error", "nil">>

\* C19: an execution that fails with an error containing "Critical" ends
\* the run of the enclosing list of rules at once, for action rules and
\* for scraping rules; after any other error the remaining rules are
\* executed.
C19_CriticalAborts ==
    [][ RuleExecuted =>
          LET out == outs'[Len(outs')]
          IN  /\ out = "Critical" => rpc' = "returned"
              /\ out = "error" /\ rulesLeft > 1 => rpc' # "returned" ]_vars

\* C20: when executeScrapingRulesInRuleset or
\* executeScrapingRulesInRuleGroup has returned, the key-value store holds
\* no non-persistent entry of the context-id of the run.
C20_EnvironmentCleared ==
    fn \in ScrapingFunctions /\ rpc = "returned" =>
        \A e \in kvStore : e.cid = cid => e.persistent

\* the function being evaluated is f
Calling(f) == call # <<>> /\ call[1] = f

\* C21: a rule whose Conditions have language = L is not applied to a page
\* whose document language is not L, whatever its other conditions are and
\* whatever they evaluate to.
C21_LanguageRespected ==
    \A f \in {"executeActionRule", "executeScrapingRule"} :
        Calling(f) /\ "language" \in call[2].keys
                   /\ call[3].lang # call[2].language
            => result[1] = FALSE

\* C22: checkActionPreConditions and checkScrapingPreConditions return true
\* exactly when the URL contains every pattern of the list (true for the
\* empty list), whatever the order of the patterns.
C22_AllPatterns ==
    \A f \in {"checkActionPreConditions", "checkScrapingPreConditions"} :
        Calling(f) =>
            result = <<\A k \in 1..Len(call[2]) : Contains(call[3], call[2][k])>>

\* C23: findElementBySelectorType returns the element of the first selector,
\* in list order, that is found and matches both the requested attribute and
\* the requested value; an element that fails either is never returned.
C23_FirstFullMatch ==
    Calling("findElementBySelectorType") =>
        LET selectors == call[2]
            full == {k \in 1..Len(selectors) :
                        /\ selectors[k].found
                        /\ selectors[k].attribute # "differ"
                        /\ selectors[k].value # "differ"}
        IN  result[1] = IF full = {} THEN 0
                        ELSE CHOOSE k \in full : \A j \in full : k <= j

\* C24: the document returned by processScrapingRules is well-formed JSON for
\* every combination of rules that produce a fragment or nothing: an opening
\* brace, members separated by exactly one comma (no empty member, no leading,
\* trailing or doubled comma, no missing separator), a closing brace.
C24_WellFormedDocument ==
    Calling("processScrapingRules") =>
        LET doc == result[1]
            n == Len(doc)
        IN  /\ doc[1] = "{" /\ doc[n] = "}"
            /\ n = 2 \/ n % 2 = 1
            /\ \A i \in 2..(n - 1) : doc[i] = IF i % 2 = 0 THEN "m" ELSE ","

\* C25: a URL that a worker does not skip, and so fetches and indexes, is in
\* the domain scope of its source: with scope 0 it is the URL of the source,
\* with scope 2 the last two labels of its host are those of the source's
\* host, whether the link is absolute, without scheme, protocol-relative or
\* relative; with scope 4 no URL is skipped.
C25_ScopeEnforced ==
    Calling("skipURL") =>
        LET sourceURL == call[2]
            restricted == call[3]
            url == call[4]
            \* the URL the link designates on a page of the source
            target == [form |-> "absolute",
                       host |-> IF url.form = "rooted" THEN sourceURL.host ELSE url.host,
                       path |-> url.path]
            LastTwo(h) == IF Len(h) >= 2 THEN SubSeq(h, Len(h) - 1, Len(h)) ELSE h
        IN  /\ restricted = 0 /\ result = <<FALSE>> => target = sourceURL
            /\ restricted = 2 /\ result = <<FALSE>>
                   => LastTwo(target.host) = LastTwo(sourceURL.host)
            /\ restricted = 4 => result = <<FALSE>>

\* C26: the expansion loop stops as soon as the depth limit is reached or a
\* level yields no new link: with max_depth = N > 0 a level starts only below
\* depth N, so at most N levels run; no level starts without links to work
\* on; with max_depth = 0 the loop is left only when the last level yielded
\* no new link.
C26_ExpansionStops ==
    /\ [](configMaxDepth > 0 => cw.currentDepth <= configMaxDepth)
    /\ [][/\ cw.pc = "loop" /\ cw'.pc = "workers"
              => /\ cw.newLinksFound > 0
                 /\ configMaxDepth > 0 => cw.currentDepth < configMaxDepth
          /\ cw.pc = "loop" /\ cw'.pc = "done"
              => \/ cw.newLinksFound = 0
                 \/ configMaxDepth > 0 /\ cw.currentDepth >= configMaxDepth]_vars

C26_Witness ==
    /\ cw.pc = "done"
    /\ configMaxDepth = 0
    /\ cw.currentDepth >= 2
    /\ cw.newLinksFound = 0

\* C27: the list of URLs handed to the workers of a level holds each URL at
\* most once.
C27_FrontierDeduplicated ==
    cw.pc = "workers" =>
        \A j, k \in 1..Len(cw.allLinks) : cw.allLinks[j] = cw.allLinks[k] => j = k

\* C28: the driver calls of a Crawl Session are serialized: no worker
\* navigates the browser between another worker's navigation and its reading
\* of the page, so the content indexed under a URL is the page of that URL.
C28_DriverSerialized ==
    /\ \A w \in Workers : wk[w].pc = "read" => processCtx.wd = wk[w].url
    /\ \A p \in pagesIndexed : p.content = p.url

\* C29: a fetch failure on one URL of the frontier does not fail the session:
\* the worker drops the URL and is ready for the next job, the jobs left and
\* the loop are untouched, and the outcome reported at the end is
\* 'completed'.
C29_FetchFailureTolerated ==
    /\ [][\A w \in Workers :
              wk[w].pc = "get" /\ wk'[w].pc = "idle"
                  => /\ cw' = cw
                     /\ processCtx' = processCtx
                     /\ pagesIndexed' = pagesIndexed]_vars
    /\ [](errorLog # {} => cw.pc # "done" \/ cw.reported = <<"completed">>)

C29_Witness ==
    /\ errorLog # {}
    /\ cw.pc = "done"
    /\ cw.currentDepth >= 2
    /\ \E p \in pagesIndexed : p.url \notin errorLog

\* C30: database maintenance runs only in an iteration of the dispatcher
\* that found no source, and at most once per maintenance interval of 24
\* hours: two runs are at least an interval apart.
C30_MaintenanceOncePerInterval ==
    /\ \A k \in 1..Len(maintenanceLog) : maintenanceLog[k].sources = 0
    /\ \A k \in 1..(Len(maintenanceLog) - 1) :
           maintenanceLog[k + 1].at - maintenanceLog[k].at >= MaintenanceInterval

\* C32: connecting or reconnecting to the remote driver is bounded: while
\* the driver stays unreachable a session retries at most 5 times and then
\* gets an error back; it never makes a sixth retry.
C32_ReconnectBounded ==
    \A i \in Sessions : spc[i] \in {"connect", "reconnect"} => tries[i] <= 5

\* C33: executeActionRule performs the action only if every wait condition
\* succeeded and every condition of the Conditions map holds (element
\* present, language equal, plugin returning "true"); a failed wait
\* condition returns its error, a false guard returns no error, and in both
\* cases no action is performed.
C33_GuardIsConjunction ==
    Calling("executeActionRule") /\ Len(call) = 4 =>
        LET c == call[2]
            p == call[3]
            waitsOK == \A k \in 1..Len(call[4]) : ~call[4][k]
            guard == /\ "element" \in c.keys => p.elementFound
                     /\ "language" \in c.keys => p.lang = c.language
                     /\ "plugin_call" \in c.keys => p.pluginExists /\ p.rval = "true"
        IN  /\ result[1] <=> waitsOK /\ guard
            /\ result[2] = IF waitsOK THEN "nil" ELSE "wait condition"

\* C34: every URL a worker fetches and every page_url it indexes is
\* absolute: a relative link of a page of the source is fetched and indexed
\* as the URL it designates on the source's host, never as the relative
\* string.
C34_AbsoluteURLs ==
    Calling("worker") /\ ~result[1] =>
        LET sourceURL == call[2]
            url == call[4]
            absolute == IF url.form = "rooted"
                        THEN [form |-> "absolute", host |-> sourceURL.host,
                              path |-> url.path]
                        ELSE url
        IN  /\ result[2].form = "absolute" /\ result[3].form = "absolute"
            /\ url.form = "rooted" => result[2] = absolute /\ result[3] = absolute

\* C35: the frontier swap happens only at the barrier: newLinks is read and
\* reset only when every worker of the level has finished, it changes only
\* under linksMutex, and all the links appended during a level make the URL
\* list of the next level: none is lost, none is appended after the swap.
C35_SwapAtBarrier ==
    /\ [][/\ cw.pc = "workers" /\ cw'.pc = "loop"
              => /\ \A w \in Workers : wk[w].pc = "idle" /\ wk[w].links = <<>>
                 /\ processCtx.linksMutex = 0
                 /\ processCtx'.newLinks = <<>>
                 /\ processCtx.newLinks # <<>> => cw'.allLinks = processCtx.newLinks
          /\ processCtx'.newLinks # processCtx.newLinks
              => \/ cw.pc = "workers" /\ cw'.pc = "loop"
                 \/ /\ cw.pc = "workers" /\ cw'.pc = "workers"
                    /\ processCtx.linksMutex = 0
                    /\ \E w \in Workers :
                          /\ processCtx'.linksMutex = w
                          /\ processCtx'.newLinks = processCtx.newLinks \o wk[w].links]_vars
    /\ [](cw.pc # "workers" => \A w \in Workers : wk[w].pc = "idle")

C35_Witness ==
    /\ cw.pc = "loop"
    /\ cw.currentDepth = 1
    /\ cw.workers >= 2
    /\ cw.newLinksFound >= 2

C37_SessionTerminates == (cw.pc = "loop") ~> (cw.pc = "done")

\* C39: when no selector yields a fully matching element, the empty
\* selector list included, findElementBySelectorType returns no element and
\* a non-nil error, so a caller that checks only the error never uses a nil
\* element.
C39_NoElementNoNilError ==
    Calling("findElementBySelectorType") =>
        LET selectors == call[2]
            full == {k \in 1..Len(selectors) :
                        /\ selectors[k].found
                        /\ selectors[k].attribute # "differ"
                        /\ selectors[k].value # "differ"}
        IN  /\ full = {} => result = <<0, TRUE>>
            /\ result[1] = 0 => result[2]

\* a step of the loop of dispatcher d
CheckSourcesStep(d) ==
    \/ CheckSourcesQueryError(d)
    \/ \E q \in CheckSourcesResults : CheckSourcesQuery(d, q)
    \/ CheckSourcesSleep(d)
    \/ CheckSourcesCrawl(d)
    \/ \E err \in CrawlErrors \cup {NoError}, db \in DbOutcomes :
          CheckSourcesCrawled(d, err, db)

C38_SnapshotOnlyWhenStored ==
    Calling("TakeScreenshot") =>
        LET rowExists == call[3]
            shotErr == call[4]
            old == call[6]
        IN  /\ result[1] # old => rowExists /\ ~shotErr
            /\ shotErr => result[1] = old

\* C31: on SIGINT or SIGTERM the catalog connection and the browser are
\* closed, and a Crawl Session in flight at that moment is not cut off: it
\* gets the driver error at its next driver call and has ended with the
\* status error reported or attempted when the process exits.
C31_InFlightEndsErrored ==
    proc.pc = "exited" =>
        /\ proc.db = "closed" /\ proc.wd = "closed"
        /\ ~proc.inFlight
        /\ \A k \in 1..Len(proc.statuses) :
               proc.statuses[k].inFlight => proc.statuses[k].status = "error"

====
